---------------------------- MODULE Spec2Model ----------------------------
(***************************************************************************)
(* Orchestration runtime of heat: the distributed stack lock               *)
(* (heat/engine/stack_lock.py), the resource lifecycle state machine       *)
(* (heat/engine/resource.py) and the stack orchestrator                    *)
(* (heat/engine/parser.py).                                                *)
(***************************************************************************)
EXTENDS Integers, Sequences, FiniteSets, TLC

(***************************************************************************)
(* Bounds                                                                  *)
(***************************************************************************)
\* number of running engine processes competing for the lock of one stack
NumEngines == 2

\* number of top-level acquire() calls made by all engines together
MaxAcquires == 3

\* completion checks that answer "not yet" within one resource action
MaxPolls == 1

\* top-level calls made on one resource
MaxCalls == 3

\* calls of stack actions made on one stack
MaxStackCalls == 2

\* references in the definition of one resource
MaxRefs == 1

(***************************************************************************)
(* Values                                                                  *)
(***************************************************************************)
\* what the lock table operations return besides an engine id
None == 0
True == -1

\* the engines that run, and one engine process that died earlier
Engines == 1..NumEngines
Crashed == NumEngines + 1
AllEngines == Engines \cup {Crashed}

(***************************************************************************)
(* State of the stack lock                                                 *)
(*   lockRows  rows of the stack_lock table for the one stack, each row    *)
(*             identified by the engine id it names                        *)
(*   alive     engine process is running                                   *)
(*   held      engine is between a successful acquire() and its release()  *)
(*   pc        position of the engine's in-flight acquire() call           *)
(*   seen      lock_engine_id local of the in-flight acquire()             *)
(*   retry     retry argument of the in-flight acquire()                   *)
(*   answer    last result of _engine_alive obtained by the engine         *)
(*   outcome   the return or raise that ended the engine's last call       *)
(*   inserts   stack_lock_create calls made by the in-flight acquire()     *)
(*   steals    stack_lock_steal calls made by the in-flight acquire()      *)
(*   raced     another engine changed the lock row during the call         *)
(*   calls     top-level acquire() calls made so far by all engines        *)
(*   timedOut  some running engine failed to answer a liveness check       *)
(***************************************************************************)
VARIABLES lockRows, alive, held, pc, seen, retry, answer, outcome,
          inserts, steals, raced, calls, timedOut

lockVars == <<lockRows, alive, held, pc, seen, retry, answer, outcome,
              inserts, steals, raced, calls, timedOut>>

(***************************************************************************)
(* State of the resources of one stack                                     *)
(*   res     per resource: action, status, status_reason, the generator of *)
(*           the action in flight (task, cur, polls), what the last call   *)
(*           raised to its caller, and the trace of what that call did     *)
(*   hooks   per resource: the handle_<action> / check_<action>_complete   *)
(*           hooks its class declares                                      *)
(*   ncalls  top-level calls made so far                                   *)
(***************************************************************************)
VARIABLES res, hooks, ncalls

resVars == <<res, hooks, ncalls>>

(***************************************************************************)
(* State of the stack                                                      *)
(*   tmpl    the template: per resource, the resources its definition      *)
(*           names in a DependsOn, Ref or Fn::GetAtt                       *)
(*   prio    the order in which the graph's dictionary yields its nodes    *)
(*   deps    Stack.dependencies: the nodes and the (requirer, required)    *)
(*           edges of the dependency graph                                 *)
(*   added   resources whose add_dependencies() has run                    *)
(*   order   the last result of iterating over the stack                   *)
(*   rorder  the last result of iterating over reversed(stack)             *)
(***************************************************************************)
VARIABLES tmpl, prio, deps, added, order, rorder

graphVars == <<tmpl, prio, deps, added, order, rorder>>

(***************************************************************************)
(* State of the stack action in flight                                     *)
(*   stack   action, status, status_reason of the stack, the call in       *)
(*           flight (op) and the reverse argument it gave to stack_task    *)
(*   runner  per graph node, the TaskRunner of the DependencyTaskGroup     *)
(*   grp     the DependencyTaskGroup: whether it runs, its reverse flag,   *)
(*           the failures of its tasks in the order they happened, and the *)
(*           tasks stepped in the current round                            *)
(***************************************************************************)
VARIABLES stack, runner, grp

stackVars == <<stack, runner, grp>>

(***************************************************************************)
(* State of the definition of the driven resource                          *)
(*   snippet  its current definition (self.t): the top-level template keys *)
(*            and, under Properties, its properties                        *)
(*   klass    update_allowed_keys and update_allowed_properties of its     *)
(*            class                                                        *)
(*   target   its definition in the new template, which update() is given  *)
(*   updArgs  the diffs handle_update was invoked with by the last         *)
(*            update(), if it was                                          *)
(***************************************************************************)
VARIABLES snippet, klass, target, updArgs

updVars == <<snippet, klass, target, updArgs>>

(***************************************************************************)
(* State of a stack update                                                 *)
(*   defn    for each resource, the version of the template its current    *)
(*           definition (Resource.t) was taken from                        *)
(*   change  for each resource, how its definition differs between a       *)
(*           template and the next one: "same", "allowed" (only            *)
(*           update-allowed keys differ) or "replace"                      *)
(*   upd     the Stack.update in flight: its action, the version of its    *)
(*           newstack and of the template the stack had when it was        *)
(*           called, how many times update() was re-invoked from within    *)
(*           the call, and for each resource what the call has done to it  *)
(***************************************************************************)
VARIABLES defn, change, upd

suVars == <<defn, change, upd>>

(***************************************************************************)
(* State of the construction of a stack's dependency graph                 *)
(*   references  per resource, those found in its definition: the     *)
(*           key ("DependsOn", "Ref" or "Fn::GetAtt") and the resource     *)
(*           name it is given                                              *)
(*   strict  per resource, strict_dependency of its class                  *)
(*   built   Stack._get_dependencies in Stack.__init__: the graph so far,  *)
(*           the resources whose add_dependencies() has run, and the       *)
(*           exception that ended it, if any                               *)
(***************************************************************************)
VARIABLES references, strict, built

refVars == <<references, strict, built>>

vars == <<lockVars, resVars, graphVars, stackVars, updVars, suVars, refVars>>

\* what the operations of one component leave alone
notLock == <<resVars, graphVars, stackVars, updVars, suVars, refVars>>
notResource == <<lockVars, graphVars, stackVars, updVars, suVars, refVars>>
notGraph == <<lockVars, resVars, stackVars, updVars, suVars, refVars>>
notStack == <<lockVars, updVars, suVars, refVars>>
notStackUpdate ==
    <<lockVars, updVars, graphVars, hooks, ncalls, change, refVars>>
notRefs == <<lockVars, resVars, graphVars, stackVars, updVars, suVars>>

(***************************************************************************)
(* The lock table operations used by StackLock.  Each returns the new rows *)
(* and the value handed back to the caller: None on success, True when     *)
(* there is no row, otherwise the engine id the row names.                 *)
(***************************************************************************)
RowOwner(rows) == CHOOSE o \in rows : TRUE

stack_lock_create(rows, engine_id) ==
    IF rows = {}
    THEN [rows |-> {engine_id}, result |-> None]
    ELSE [rows |-> rows, result |-> RowOwner(rows)]

stack_lock_steal(rows, old_engine_id, new_engine_id) ==
    IF old_engine_id \in rows
    THEN [rows |-> (rows \ {old_engine_id}) \cup {new_engine_id},
          result |-> None]
    ELSE IF rows = {}
         THEN [rows |-> rows, result |-> True]
         ELSE [rows |-> rows, result |-> RowOwner(rows)]

stack_lock_release(rows, engine_id) ==
    IF engine_id \in rows
    THEN [rows |-> rows \ {engine_id}, result |-> None]
    ELSE [rows |-> rows, result |-> True]

\* _engine_alive: the answers the RPC call can give for an engine
engine_alive(engine_id) ==
    IF alive[engine_id] THEN {TRUE, FALSE} ELSE {FALSE}

\* acquire(): the test that raises ActionInProgress after the insert failed
LockIsHeld_NoLiveness(self, lock_engine_id, is_alive) ==
    lock_engine_id = self

LockIsHeld_Always(self, lock_engine_id, is_alive) ==
    TRUE

LockIsHeld(self, lock_engine_id, is_alive) ==
    lock_engine_id = self \/ is_alive

\* acquire(): the test that decides to call acquire(retry=False)
ShouldRetry_Forever(result, may_retry) ==
    result = True

ShouldRetry_OnAnyLoss(result, may_retry) ==
    result # None /\ may_retry

ShouldRetry(result, may_retry) ==
    result = True /\ may_retry

\* release(): the engine id handed to stack_lock_release
ReleaseArg_Owner(self, rows) ==
    IF rows = {} THEN self ELSE RowOwner(rows)

ReleaseArg(self, rows) ==
    self

\* the returns of acquire() (lines 55, 75) and its raises (lines 61, 90)
Acquired == {"acquired", "stole"}
ActionInProgress == {"owned", "lost_steal", "lost_retry"}

\* every in-flight acquire() of another engine sees the row change
Raced(e, rows) ==
    [x \in AllEngines |->
        IF x # e /\ pc[x] # "idle" /\ rows # lockRows THEN TRUE ELSE raced[x]]

\* the locals of acquire() are gone when the call has ended
Ended(e, f, v) ==
    [f EXCEPT ![e] = v]

InitLock ==
    /\ lockRows \in {{}, {Crashed}}
    /\ alive = [e \in AllEngines |-> e # Crashed]
    /\ held = [e \in AllEngines |-> e = Crashed /\ lockRows = {Crashed}]
    /\ pc = [e \in AllEngines |-> "idle"]
    /\ seen = [e \in AllEngines |-> None]
    /\ retry = [e \in AllEngines |-> TRUE]
    /\ answer = [e \in AllEngines |-> "none"]
    /\ outcome = [e \in AllEngines |-> "none"]
    /\ inserts = [e \in AllEngines |-> 0]
    /\ steals = [e \in AllEngines |-> 0]
    /\ raced = [e \in AllEngines |-> FALSE]
    /\ calls = 0
    /\ timedOut = FALSE

\* acquire(), lines 50-55: the insert and the return when it succeeded
Insert(e, may_retry, count) ==
    LET r == stack_lock_create(lockRows, e) IN
    /\ lockRows' = r.rows
    /\ answer' = [answer EXCEPT ![e] = "none"]
    /\ IF r.result = None
       THEN /\ pc' = [pc EXCEPT ![e] = "idle"]
            /\ held' = [held EXCEPT ![e] = TRUE]
            /\ outcome' = [outcome EXCEPT ![e] = "acquired"]
            /\ seen' = Ended(e, seen, None)
            /\ retry' = Ended(e, retry, TRUE)
            /\ inserts' = Ended(e, inserts, 0)
            /\ steals' = Ended(e, steals, 0)
            /\ raced' = Ended(e, Raced(e, r.rows), FALSE)
       ELSE /\ pc' = [pc EXCEPT ![e] = "check"]
            /\ outcome' = [outcome EXCEPT ![e] = "none"]
            /\ seen' = [seen EXCEPT ![e] = r.result]
            /\ retry' = [retry EXCEPT ![e] = may_retry]
            /\ inserts' = [inserts EXCEPT ![e] = count]
            /\ raced' = Raced(e, r.rows)
            /\ UNCHANGED <<held, steals>>

\* acquire(retry=True) called by engine e
acquire(e) ==
    /\ alive[e]
    /\ pc[e] = "idle"
    /\ calls < MaxAcquires
    /\ calls' = calls + 1
    /\ Insert(e, TRUE, 1)
    /\ UNCHANGED <<alive, timedOut>>
    /\ UNCHANGED notLock

\* acquire(), line 57: own row, or the liveness RPC to the owner
acquire_check(e) ==
    /\ alive[e]
    /\ pc[e] = "check"
    /\ \E is_alive \in (IF seen[e] = e THEN {FALSE} ELSE engine_alive(seen[e])) :
          /\ answer' = [answer EXCEPT ![e] =
                           IF seen[e] = e THEN "none"
                           ELSE IF is_alive THEN "alive" ELSE "dead"]
          /\ timedOut' = (timedOut \/ (seen[e] # e /\ alive[seen[e]] /\ ~is_alive))
          /\ IF LockIsHeld(e, seen[e], is_alive)
             THEN /\ pc' = [pc EXCEPT ![e] = "idle"]
                  /\ outcome' = [outcome EXCEPT ![e] = "owned"]
                  /\ seen' = Ended(e, seen, None)
                  /\ retry' = Ended(e, retry, TRUE)
                  /\ inserts' = Ended(e, inserts, 0)
                  /\ steals' = Ended(e, steals, 0)
                  /\ raced' = Ended(e, raced, FALSE)
             ELSE /\ pc' = [pc EXCEPT ![e] = "steal"]
                  /\ UNCHANGED <<outcome, seen, retry, inserts, steals, raced>>
    /\ UNCHANGED <<lockRows, alive, held, calls>>
    /\ UNCHANGED notLock

\* acquire(), lines 68-91: the steal and what follows from its result
acquire_steal(e) ==
    LET r == stack_lock_steal(lockRows, seen[e], e) IN
    /\ alive[e]
    /\ pc[e] = "steal"
    /\ lockRows' = r.rows
    /\ IF r.result # None /\ ShouldRetry(r.result, retry[e])
       THEN /\ pc' = [pc EXCEPT ![e] = "retry"]
            /\ steals' = [steals EXCEPT ![e] = @ + 1]
            /\ raced' = Raced(e, r.rows)
            /\ UNCHANGED <<held, outcome, seen, retry, answer, inserts>>
       ELSE /\ pc' = [pc EXCEPT ![e] = "idle"]
            /\ held' = [held EXCEPT ![e] = (r.result = None) \/ @]
            /\ outcome' = [outcome EXCEPT ![e] =
                              IF r.result = None THEN "stole"
                              ELSE IF r.result = True THEN "lost_retry"
                              ELSE "lost_steal"]
            /\ seen' = Ended(e, seen, None)
            /\ retry' = Ended(e, retry, TRUE)
            /\ answer' = Ended(e, answer, "none")
            /\ inserts' = Ended(e, inserts, 0)
            /\ steals' = Ended(e, steals, 0)
            /\ raced' = Ended(e, Raced(e, r.rows), FALSE)
    /\ UNCHANGED <<alive, calls, timedOut>>
    /\ UNCHANGED notLock

\* acquire(), line 82: the recursive call acquire(retry=False)
acquire_retry(e) ==
    /\ alive[e]
    /\ pc[e] = "retry"
    /\ Insert(e, FALSE, inserts[e] + 1)
    /\ UNCHANGED <<alive, calls, timedOut>>
    /\ UNCHANGED notLock

\* release() called by engine e
release(e) ==
    LET r == stack_lock_release(lockRows, ReleaseArg(e, lockRows)) IN
    /\ alive[e]
    /\ pc[e] = "idle"
    /\ outcome[e] \in Acquired \cup {"released"}
    /\ lockRows' = r.rows
    /\ held' = [held EXCEPT ![e] = FALSE]
    /\ outcome' = [outcome EXCEPT ![e] =
                       IF r.result = True THEN "AlreadyReleased" ELSE "released"]
    /\ raced' = Raced(e, r.rows)
    /\ UNCHANGED <<alive, pc, seen, retry, answer, inserts, steals, calls,
                   timedOut>>
    /\ UNCHANGED notLock

\* the engine process dies; it makes no further step
crash(e) ==
    /\ alive[e]
    /\ alive' = [alive EXCEPT ![e] = FALSE]
    /\ UNCHANGED <<lockRows, held, pc, seen, retry, answer, outcome, inserts,
                   steals, raced, calls, timedOut>>
    /\ UNCHANGED notLock

NextLock ==
    \E e \in Engines :
        \/ acquire(e)
        \/ acquire_check(e)
        \/ acquire_steal(e)
        \/ acquire_retry(e)
        \/ release(e)
        \/ crash(e)

(***************************************************************************)
(* Resource (heat/engine/resource.py)                                      *)
(***************************************************************************)
Names == {"A", "B", "C"}

CREATE == "CREATE"
DELETE == "DELETE"
UPDATE == "UPDATE"
ROLLBACK == "ROLLBACK"
SUSPEND == "SUSPEND"
RESUME == "RESUME"
IN_PROGRESS == "IN_PROGRESS"
FAILED == "FAILED"
COMPLETE == "COMPLETE"
NoState == "None"

\* the exception a failing hook raises: its type name and its message
Cause == [type |-> "Exception", msg |-> "oops"]

\* str() of the exception itself
StrCause(ex) == ex.msg

\* str() of ResourceFailure(ex), as test_scaling_group_suspend_fail reads it
StrFailure(ex) == ex.type \o ": " \o ex.msg

\* Resource.__init__ for a resource that is not in the database
\* handle_data = None, line 354
NoData == <<>>

NewResource ==
    [action |-> NoState, status |-> NoState, status_reason |-> "",
     task |-> "none", cur |-> NoState, polls |-> 0,
     op |-> "none", prev |-> "none", raised |-> "none", exc |-> "",
     trace |-> <<>>, id |-> None, resource_id |-> None, made |-> 0,
     events |-> <<>>, data |-> NoData, arg |-> NoData]

\* the hook declarations a resource class can have
HookKinds == [handle : BOOLEAN, check : BOOLEAN]

\* a new top-level call: nothing done and nothing raised yet; prev keeps
\* the call before it, and how that one ended
Called(r, op) == [r EXCEPT !.op = op,
                           !.prev = IF r.raised = "none" THEN r.op
                                    ELSE r.op \o " raised",
                           !.raised = "none", !.exc = "",
                           !.trace = <<>>, !.polls = 0, !.task = "none",
                           !.cur = NoState, !.data = NoData, !.arg = NoData]

\* the call raised the exception of kind k whose string is m
Raise(r, k, m) == [r EXCEPT !.raised = k, !.exc = m]

\* repr() of a state component, and str() of the state tuple
Repr(x) == IF x = NoState THEN "None" ELSE "'" \o x \o "'"
StrState(r) == "(" \o Repr(r.action) \o ", " \o Repr(r.status) \o ")"

\* position of the first occurrence of x in the trace t, 0 when absent
Pos(t, x) ==
    IF \E i \in 1..Len(t) : t[i] = x
    THEN CHOOSE i \in 1..Len(t) : t[i] = x /\ \A j \in 1..(i - 1) : t[j] # x
    ELSE 0

\* the call invoked a hook (or the validation), which returned
Did(r, what) == [r EXCEPT !.trace = Append(@, what)]

\* the call invoked a hook (or the validation), which raised
Raising(r, what) == [r EXCEPT !.trace = @ \o <<what, "raised">>]

\* state_set, lines 627-632, with _store_or_update: the record of the
\* resource is created on the transition to (CREATE, IN_PROGRESS), and an
\* Event is added when the new state is not the old one
state_set_AlwaysEvent(r, action, status, reason) ==
    [r EXCEPT !.action = action, !.status = status, !.status_reason = reason,
              !.trace = Append(@, status),
              !.id = IF r.id = None /\ <<action, status>> = <<CREATE, IN_PROGRESS>>
                     THEN 1 ELSE r.id,
              !.events = Append(@, <<action, status>>)]

state_set(r, action, status, reason) ==
    [r EXCEPT !.action = action, !.status = status, !.status_reason = reason,
              !.trace = Append(@, status),
              !.id = IF r.id = None /\ <<action, status>> = <<CREATE, IN_PROGRESS>>
                     THEN 1 ELSE r.id,
              !.events = IF <<action, status>> # <<r.action, r.status>>
                         THEN Append(@, <<action, status>>) ELSE @]

\* Resource.ACTIONS and Resource.STATUSES
Actions == {CREATE, DELETE, UPDATE, ROLLBACK, SUSPEND, RESUME}
Statuses == {IN_PROGRESS, FAILED, COMPLETE}

\* rsrc.state_set(action, status) called from outside the resource, lines
\* 620-632: a name that is none of these raises ValueError
StateSetCall(r, action, status) ==
    IF action \notin Actions
    THEN Raise(Called(r, "state_set"), "ValueError", "Invalid action")
    ELSE IF status \notin Statuses
    THEN Raise(Called(r, "state_set"), "ValueError", "Invalid status")
    ELSE state_set(Called(r, "state_set"), action, status, "state changed")

\* resource_id_set, as the handle_create of a driver calls it with the id of
\* the physical resource it made; made counts those made under this name
resource_id_set_new(r) ==
    [r EXCEPT !.resource_id = r.made + 1, !.made = r.made + 1]

\* _do_action, lines 362-366: a hook or the validation raised
ActionFailed_NotRecorded(r, action, ex) ==
    [Raise(r, "ResourceFailure", StrFailure(ex)) EXCEPT !.task = "failed"]

ActionFailed_Unwrapped(r, action, ex) ==
    [Raise(state_set(r, action, FAILED, StrFailure(ex)), ex.type, StrCause(ex))
        EXCEPT !.task = "failed"]

ActionFailed(r, action, ex) ==
    [Raise(state_set(r, action, FAILED, StrFailure(ex)),
           "ResourceFailure", StrFailure(ex))
        EXCEPT !.task = "failed"]

\* _do_action, lines 367-373: the generator is closed at a yield, which
\* raises GeneratorExit there; it is no Exception, so the bare except
\* records the failure and raises it again
ActionAborted_NotRecorded(r, action) ==
    [Raise(r, "GeneratorExit", "") EXCEPT !.task = "cancelled"]

ActionAborted(r, action) ==
    [Raise(state_set(r, action, FAILED, action \o " aborted"),
           "GeneratorExit", "")
        EXCEPT !.task = "cancelled"]

\* _do_action, lines 374-375: the generator ends normally
ActionCompleted(r, action) ==
    [state_set(r, action, COMPLETE, "state changed") EXCEPT !.task = "done"]

\* _do_action, lines 358 and 361: the generator yields
Yielded(r, action) ==
    [r EXCEPT !.task = "suspended", !.cur = action]

\* _do_action, lines 359-361: one evaluation of the while condition.
\* out is what check_<action>_complete does: "true", "false" or "raise";
\* arg is the argument it is called with, handle_data
CheckOnce_Skipped(r, action, hk, out) ==
    ActionCompleted(r, action)

CheckArg_None(r) ==
    [r EXCEPT !.arg = NoData]

CheckArg(r) ==
    [r EXCEPT !.arg = r.data]

CheckOnce_Undeclared(r, action, hk, out) ==
    IF out = "raise"
    THEN ActionFailed(Raising(CheckArg(r), "check"), action, Cause)
    ELSE IF out = "true"
    THEN ActionCompleted(Did(CheckArg(r), "check_true"), action)
    ELSE Yielded([Did(CheckArg(r), "check") EXCEPT !.polls = @ + 1], action)

CheckOnce(r, action, hk, out) ==
    IF ~hk.check THEN ActionCompleted(r, action)
    ELSE IF out = "raise"
    THEN ActionFailed(Raising(CheckArg(r), "check"), action, Cause)
    ELSE IF out = "true"
    THEN ActionCompleted(Did(CheckArg(r), "check_true"), action)
    ELSE Yielded([Did(CheckArg(r), "check") EXCEPT !.polls = @ + 1], action)

\* _do_action, lines 355-358: handle_<action> and the first yield.
\* out is what handle_<action> does: "ok" or "raise"; what it returns is
\* kept in handle_data, a value that names the call that returned it
HandleData(r, action) ==
    <<action, r.made>>

HandleOnce_NotSupported(r, action, hk, out) ==
    IF ~hk.handle /\ action \in {SUSPEND, RESUME}
    THEN ActionFailed(r, action, [type |-> "NotSupported",
                                  msg |-> action \o " not supported"])
    ELSE IF ~hk.handle THEN ActionCompleted(r, action)
    ELSE IF out = "raise" THEN ActionFailed(Raising(r, "handle"), action, Cause)
    ELSE LET r1 == IF action = CREATE THEN resource_id_set_new(r) ELSE r
         IN  Yielded(Did([r1 EXCEPT !.data = HandleData(r1, action)],
                         "handle"), action)

HandleOnce(r, action, hk, out) ==
    IF ~hk.handle THEN ActionCompleted(r, action)
    ELSE IF out = "raise" THEN ActionFailed(Raising(r, "handle"), action, Cause)
    ELSE LET r1 == IF action = CREATE THEN resource_id_set_new(r) ELSE r
         IN  Yielded(Did([r1 EXCEPT !.data = HandleData(r1, action)],
                         "handle"), action)

\* _do_action, lines 346-358: from the call of the generator to its first
\* yield.  pre is TRUE when a pre_func is given, pre_out what it does.
DoActionStart_HandleFirst(r, action, hk, pre, pre_out, out) ==
    LET r1 == IF pre THEN Did(r, "validate") ELSE r
        r2 == IF hk.handle
              THEN Did(IF action = CREATE /\ out # "raise"
                       THEN resource_id_set_new(r1) ELSE r1, "handle")
              ELSE r1
        r3 == state_set(r2, action, IN_PROGRESS, "state changed")
    IN  IF (pre /\ pre_out = "raise") \/ (hk.handle /\ out = "raise")
        THEN ActionFailed(Did(r3, "raised"), action, Cause)
        ELSE IF hk.handle THEN Yielded(r3, action)
        ELSE ActionCompleted(r3, action)

DoActionStart(r, action, hk, pre, pre_out, out) ==
    LET r1 == state_set(r, action, IN_PROGRESS, "state changed")
    IN  IF pre /\ pre_out = "raise"
        THEN ActionFailed(Raising(r1, "validate"), action, Cause)
        ELSE HandleOnce(IF pre THEN Did(r1, "validate") ELSE r1,
                        action, hk, out)

\* create(), line 382: the states create() is accepted in
CreateAllowed_Any(r) ==
    TRUE

CreateAllowed(r) ==
    NoState \in {r.action, r.status}

\* create(): the assertion, then _do_action(CREATE, properties.validate)
create(r, hk, pre_out, out) ==
    IF ~CreateAllowed(r)
    THEN Raise(Called(r, "create"), "AssertionError",
               "invalid state for create")
    ELSE DoActionStart(Called(r, "create"), CREATE, hk, TRUE, pre_out, out)

\* suspend(): the state test, then _do_action(SUSPEND)
SuspendAllowed_Any(r) ==
    TRUE

SuspendAllowed(r) ==
    ~(r.action = DELETE \/ r.status # COMPLETE)

suspend(r, hk, out) ==
    IF ~SuspendAllowed(r)
    THEN Raise(Called(r, "suspend"), "ResourceFailure",
               "Error: State " \o StrState(r) \o " invalid for suspend")
    ELSE DoActionStart(Called(r, "suspend"), SUSPEND, hk, FALSE, "ok", out)

\* resume(): the state test, then _do_action(RESUME)
ResumeAllowed_AnyComplete(r) ==
    r.status = COMPLETE

ResumeAllowed(r) ==
    <<r.action, r.status>> = <<SUSPEND, COMPLETE>>

resume(r, hk, out) ==
    IF ~ResumeAllowed(r)
    THEN Raise(Called(r, "resume"), "ResourceFailure",
               "Error: State " \o StrState(r) \o " invalid for resume")
    ELSE DoActionStart(Called(r, "resume"), RESUME, hk, FALSE, "ok", out)

\* update(), lines 405-433.  The base class declares handle_update.
\* pre_out: properties.validate(); diff: whether update_template_diff or
\* update_template_diff_properties finds a key that is not update-allowed;
\* out: what handle_update does, "ok", "raise" or "replace" (UpdateReplace).
\* update(), lines 405-408: the states update() is accepted in
UpdateAccepted_Any(r) ==
    TRUE

UpdateAccepted(r) ==
    <<r.action, r.status>> \notin {<<CREATE, IN_PROGRESS>>,
                                   <<UPDATE, IN_PROGRESS>>}

\* update(), lines 421-423: UpdateReplace is raised again as it is, and no
\* state is recorded
ReplaceRaised_Failed(r) ==
    Raise(state_set(r, UPDATE, FAILED, "UpdateReplace"),
          "UpdateReplace", "UpdateReplace")

ReplaceRaised(r) ==
    Raise(r, "UpdateReplace", "UpdateReplace")

update(r, pre_out, diff, out) ==
    IF ~UpdateAccepted(r)
    THEN Raise(Called(r, "update"), "ResourceFailure",
               "Exception: Resource update already requested")
    ELSE LET r1 == state_set(Called(r, "update"), UPDATE, IN_PROGRESS,
                             "state changed")
             r2 == Did(r1, "validate")
         IN  IF pre_out = "raise"
             THEN [ActionFailed(Raising(r1, "validate"), UPDATE, Cause)
                      EXCEPT !.task = "none"]
             ELSE IF diff = "replace"
             THEN ReplaceRaised(Did(r2, "diff"))
             ELSE IF out = "raise"
             THEN [ActionFailed(Raising(Did(r2, "diff"), "handle"), UPDATE,
                                Cause) EXCEPT !.task = "none"]
             ELSE IF out = "replace"
             THEN ReplaceRaised(Raising(Did(r2, "diff"), "handle"))
             ELSE state_set(Did(Did(r2, "diff"), "handle"), UPDATE, COMPLETE,
                            "state changed")

\* delete(), lines 493-526, for DeletionPolicy Delete.
\* out is what handle_delete does: "ok" (the physical resource is deleted),
\* "clear" (deleted, and the driver calls resource_id_set(None)) or "raise".
DeleteNeeded_Always(r) ==
    TRUE

DeleteNeeded(r) ==
    ~(<<r.action, r.status>> = <<DELETE, COMPLETE>> \/ r.action = NoState)

delete_Polled(r, hk, out) ==
    IF ~DeleteNeeded(r)
    THEN Called(r, "delete")
    ELSE LET r1 == state_set(Called(r, "delete"), DELETE, IN_PROGRESS,
                             "state changed")
             r2 == IF out = "clear" THEN [r1 EXCEPT !.resource_id = None]
                   ELSE r1
             r3 == IF hk.check THEN Did(CheckArg(Did(r2, "handle")), "check_true")
                   ELSE Did(r2, "handle")
         IN  IF hk.handle /\ out = "raise"
             THEN [ActionFailed(Raising(r1, "handle"), DELETE, Cause)
                      EXCEPT !.task = "none"]
             ELSE state_set(IF hk.handle THEN r3 ELSE r1,
                            DELETE, COMPLETE, "state changed")

delete(r, hk, out) ==
    IF ~DeleteNeeded(r)
    THEN Called(r, "delete")
    ELSE LET r1 == state_set(Called(r, "delete"), DELETE, IN_PROGRESS,
                             "state changed")
             r2 == IF out = "clear" THEN [r1 EXCEPT !.resource_id = None]
                   ELSE r1
         IN  IF hk.handle /\ out = "raise"
             THEN [ActionFailed(Raising(r1, "handle"), DELETE, Cause)
                      EXCEPT !.task = "none"]
             ELSE state_set(IF hk.handle THEN Did(r2, "handle") ELSE r1,
                            DELETE, COMPLETE, "state changed")

\* destroy(): delete(), then the record of the resource is removed
destroy_KeepRecord(r, hk, out) ==
    delete(r, hk, out)

destroy(r, hk, out) ==
    LET r1 == delete(r, hk, out)
    IN  IF r1.raised # "none" THEN r1 ELSE [r1 EXCEPT !.id = None]

\* TaskRunner.cancel() on the generator of a resource action: nothing to
\* do for a task that is not suspended at a yield
cancel(r) ==
    IF r.task = "suspended" THEN ActionAborted(r, r.cur) ELSE r

\* TaskRunner.step() on the generator of a resource action
step(r, hk, out) ==
    CheckOnce(r, r.cur, hk, out)

(***************************************************************************)
(* One resource driven by its callers through TaskRunner                   *)
(***************************************************************************)
Driven == {"A"}

HandleOutcomes == {"ok", "raise"}
DeleteOutcomes == {"ok", "clear", "raise"}
CheckOutcomes == {"true", "false", "raise"}
UpdateOutcomes == {"ok", "raise", "replace"}
DiffOutcomes == {"allowed", "replace"}

InitResource ==
    /\ res = [n \in Names |-> NewResource]
    /\ hooks \in [Names -> HookKinds]
    /\ \A n \in Names \ Driven : hooks[n] = [handle |-> TRUE, check |-> TRUE]
    /\ ncalls = 0

NoTask(n) == res[n].task # "suspended"

Call(n, r) ==
    /\ ncalls < MaxCalls
    /\ ncalls' = ncalls + 1
    /\ res' = [res EXCEPT ![n] = r]
    /\ UNCHANGED <<hooks, notResource>>

\* scheduler.TaskRunner(rsrc.create).start()
call_create(n) ==
    /\ NoTask(n)
    /\ \E pre_out \in HandleOutcomes, out \in HandleOutcomes :
          Call(n, create(res[n], hooks[n], pre_out, out))

\* scheduler.TaskRunner(rsrc.suspend).start()
call_suspend(n) ==
    /\ NoTask(n)
    /\ \E out \in HandleOutcomes :
          Call(n, suspend(res[n], hooks[n], out))

\* scheduler.TaskRunner(rsrc.resume).start()
call_resume(n) ==
    /\ NoTask(n)
    /\ \E out \in HandleOutcomes :
          Call(n, resume(res[n], hooks[n], out))

\* rsrc.update(after)
call_update(n) ==
    /\ NoTask(n)
    /\ \E pre_out \in HandleOutcomes, diff \in DiffOutcomes,
          out \in UpdateOutcomes :
          Call(n, update(res[n], pre_out, diff, out))

\* rsrc.delete()
call_delete(n) ==
    /\ NoTask(n)
    /\ \E out \in DeleteOutcomes :
          Call(n, delete(res[n], hooks[n], out))

\* TaskRunner.step() of the runner started by call_create/suspend/resume
task_step(n) ==
    /\ res[n].task = "suspended"
    /\ \E out \in CheckOutcomes :
          /\ out = "false" => res[n].polls < MaxPolls
          /\ res' = [res EXCEPT ![n] = step(res[n], hooks[n], out)]
    /\ UNCHANGED <<hooks, ncalls>>
    /\ UNCHANGED notResource

\* rsrc.state_set(action, status), as the tests and the stack call it
StateSetActions == {CREATE, DELETE, "BOGUS"}
StateSetStatuses == {IN_PROGRESS, COMPLETE, "BOGUS"}

call_state_set(n) ==
    /\ NoTask(n)
    /\ \E action \in StateSetActions, status \in StateSetStatuses :
          Call(n, StateSetCall(res[n], action, status))

\* TaskRunner.cancel() of the runner started by call_create/suspend/resume
task_cancel(n) ==
    /\ res[n].task = "suspended"
    /\ res' = [res EXCEPT ![n] = cancel(res[n])]
    /\ UNCHANGED <<hooks, ncalls>>
    /\ UNCHANGED notResource

NextEvents ==
    \E n \in Driven :
        \/ call_create(n)
        \/ call_update(n)
        \/ call_delete(n)
        \/ task_step(n)
        \/ call_state_set(n)

NextResource ==
    \E n \in Driven :
        \/ call_create(n)
        \/ call_suspend(n)
        \/ call_resume(n)
        \/ call_update(n)
        \/ call_delete(n)
        \/ task_step(n)
        \/ task_cancel(n)

(***************************************************************************)
(* Resource.update with the definitions it compares                        *)
(***************************************************************************)
TmplKeys == {"Metadata", "Properties"}
PropKeys == {"p", "q"}

\* a resource definition: Metadata is absent (None) or present, and each
\* property has one of two values
Snippets == [Metadata : {None, 1}, Properties : [PropKeys -> {1, 2}]]

NoDiff == [replace |-> FALSE, diff |-> <<>>]

\* update_template_diff: UpdateReplace, or the changed keys with their new
\* values
update_template_diff_NoReplace(after, before, update_allowed_keys) ==
    LET changed_keys_set == {k \in TmplKeys : before[k] # after[k]}
    IN  [replace |-> FALSE, diff |-> [k \in changed_keys_set |-> after[k]]]

update_template_diff(after, before, update_allowed_keys) ==
    LET changed_keys_set == {k \in TmplKeys : before[k] # after[k]}
    IN  IF ~(changed_keys_set \subseteq update_allowed_keys)
        THEN [replace |-> TRUE, diff |-> <<>>]
        ELSE [replace |-> FALSE,
              diff |-> [k \in changed_keys_set |-> after[k]]]

\* update_template_diff_properties
update_template_diff_properties(after, before, update_allowed_properties) ==
    LET current_properties == before.Properties
        updated_properties == after.Properties
        changed_properties_set ==
            {k \in PropKeys : current_properties[k] # updated_properties[k]}
    IN  IF ~(changed_properties_set \subseteq update_allowed_properties)
        THEN [replace |-> TRUE, diff |-> <<>>]
        ELSE [replace |-> FALSE,
              diff |-> [k \in changed_properties_set |->
                           updated_properties[k]]]

\* update(), lines 418-419: whether one of the two diffs raises UpdateReplace
DiffOutcome(after, before, kl) ==
    IF update_template_diff(after, before, kl.keys).replace
       \/ update_template_diff_properties(after, before, kl.props).replace
    THEN "replace" ELSE "allowed"

NoArgs == [called |-> FALSE, tmpl_diff |-> <<>>, prop_diff |-> <<>>]

InitUpdate ==
    /\ snippet \in Snippets
    /\ klass \in [keys : SUBSET TmplKeys, props : SUBSET PropKeys]
    /\ target \in Snippets
    /\ updArgs = NoArgs

\* rsrc.update(after) on the driven resource, after being its definition in
\* the new template and before its current one
update_call(n) ==
    /\ NoTask(n)
    /\ ncalls < MaxCalls
    /\ ncalls' = ncalls + 1
    /\ \E pre_out \in HandleOutcomes, out \in UpdateOutcomes :
          LET after == target
              r == update(res[n], pre_out,
                          DiffOutcome(after, snippet, klass), out)
              called == Pos(r.trace, "handle") > 0
          IN  /\ res' = [res EXCEPT ![n] = r]
              /\ updArgs' =
                    [called |-> called,
                     tmpl_diff |->
                         IF called
                         THEN update_template_diff(after, snippet,
                                                   klass.keys).diff
                         ELSE <<>>,
                     prop_diff |->
                         IF called
                         THEN update_template_diff_properties(
                                  after, snippet, klass.props).diff
                         ELSE <<>>]
              /\ snippet' = IF <<r.status, r.raised>> = <<COMPLETE, "none">>
                            THEN after ELSE snippet
    /\ UNCHANGED <<hooks, klass, target, lockVars, graphVars, stackVars,
                   suVars, refVars>>

\* a created resource is updated
NextUpdate ==
    \E n \in Driven :
        \/ call_create(n)
        \/ task_step(n)
        \/ update_call(n)

(***************************************************************************)
(* Dependency graph (Resource.add_dependencies, Stack._get_dependencies,   *)
(* heat/engine/dependencies.py)                                            *)
(***************************************************************************)
NoGraph == [nodes |-> {}, edges |-> {}]

\* Dependencies.__iadd__: the edge (requirer, required)
AddEdge(g, requirer, required) ==
    [nodes |-> g.nodes \cup {requirer, required},
     edges |-> g.edges \cup {<<requirer, required>>}]

\* Dependencies.__iadd__ with required None: the node alone
AddNode(g, requirer) ==
    [nodes |-> g.nodes \cup {requirer}, edges |-> g.edges]

\* _add_dependencies: one edge per resource the definition names
RECURSIVE AddReferences(_, _, _)
AddReferences(g, r, refs) ==
    IF refs = {} THEN g
    ELSE LET t == CHOOSE x \in refs : TRUE
         IN  AddReferences(AddEdge(g, r, t), r, refs \ {t})

\* add_dependencies: the references, then deps += (self, None)
add_dependencies_EdgesOnly(g, r, refs) ==
    AddReferences(g, r, refs)

add_dependencies(g, r, refs) ==
    AddNode(AddReferences(g, r, refs), r)

\* Stack._get_dependencies: add_dependencies for every resource
RECURSIVE get_dependencies(_, _, _)
get_dependencies(g, rs, t) ==
    IF rs = {} THEN g
    ELSE LET r == CHOOSE x \in rs : TRUE
         IN  get_dependencies(add_dependencies(g, r, t[r]), rs \ {r}, t)

\* the nodes a node requires, and the nodes that require it
Requires(g, n) == {m \in g.nodes : <<n, m>> \in g.edges}
required_by(g, n) == {m \in g.nodes : <<m, n>> \in g.edges}

\* topological sort: of the nodes none of whose requirements is left, the
\* one the dictionary yields first comes next
RECURSIVE toposort(_, _, _)
toposort(g, left, p) ==
    IF left = {} THEN <<>>
    ELSE LET ready == {n \in left : Requires(g, n) \cap left = {}}
         IN  IF ready = {} THEN <<>>
             ELSE LET n == CHOOSE x \in ready :
                                 \A y \in ready : p[x] <= p[y]
                  IN  <<n>> \o toposort(g, left \ {n}, p)

Reverse(q) == [i \in 1..Len(q) |-> q[Len(q) + 1 - i]]

\* iter(stack.dependencies) and reversed(stack.dependencies)
topological_order(g, p) == toposort(g, g.nodes, p)
reverse_order(g, p) == Reverse(topological_order(g, p))

\* the graph has no cycle: every non-empty set of nodes has a node that
\* requires none of the set
Acyclic(t) ==
    \A S \in SUBSET Names :
        S # {} => \E n \in S : t[n] \cap S = {}

Templates == {t \in [Names -> SUBSET Names] : Acyclic(t)}
Priorities == {p \in [Names -> 1..Cardinality(Names)] :
                  \A a, b \in Names : a # b => p[a] # p[b]}

InitGraph ==
    /\ tmpl \in Templates
    /\ prio \in Priorities
    /\ deps = NoGraph
    /\ added = {}
    /\ order = <<>>
    /\ rorder = <<>>

\* Stack.__init__, lines 96-101: one pass of the loop of _get_dependencies
graph_add(n) ==
    /\ n \notin added
    /\ deps' = add_dependencies(deps, n, tmpl[n])
    /\ added' = added \cup {n}
    /\ UNCHANGED <<tmpl, prio, order, rorder>>
    /\ UNCHANGED notGraph

\* Stack.__iter__
stack_iter ==
    /\ added = Names
    /\ order' = topological_order(deps, prio)
    /\ UNCHANGED <<tmpl, prio, deps, added, rorder>>
    /\ UNCHANGED notGraph

\* Stack.__reversed__
stack_reversed ==
    /\ added = Names
    /\ rorder' = reverse_order(deps, prio)
    /\ UNCHANGED <<tmpl, prio, deps, added, order>>
    /\ UNCHANGED notGraph

NextGraph ==
    \/ \E n \in Names : graph_add(n)
    \/ stack_iter
    \/ stack_reversed

(***************************************************************************)
(* The references of a definition (Resource._add_dependencies)             *)
(***************************************************************************)
RefKeys == {"DependsOn", "Ref", "Fn::GetAtt"}

\* the names a definition may give: a resource of the stack, or "X", which
\* names none
RefTargets == {"A", "X"}

AllReferences == [key : RefKeys, value : RefTargets]

\* the definitions of a resource: at most MaxRefs references
Definitions == {d \in SUBSET AllReferences : Cardinality(d) <= MaxRefs}

NoBuild == [graph |-> NoGraph, added |-> {}, raised |-> "", resource |-> ""]

\* _add_dependencies, lines 287-292: self.stack.resources[value] raises
\* KeyError for these references
InvalidReferences(d) == {x \in d : x.value \notin Names}

\* _add_dependencies, line 293: whether the reference x makes an edge
NeedsEdge_Always(x, st) ==
    TRUE

NeedsEdge(x, st) ==
    x.key = "DependsOn" \/ st[x.value]

\* _add_dependencies over the whole definition d of r: the edges it adds
RefEdges(r, d, st) ==
    {<<r, x.value>> : x \in {y \in d : NeedsEdge(y, st)}}

\* add_dependencies of r within _get_dependencies: InvalidTemplateReference
\* for a reference that names no resource, else the edges and the node
add_dependencies_refs(b, r, d, st) ==
    IF InvalidReferences(d) # {}
    THEN [b EXCEPT !.raised = "InvalidTemplateReference",
                   !.resource = (CHOOSE x \in InvalidReferences(d) : TRUE).value]
    ELSE [b EXCEPT !.graph = [nodes |-> b.graph.nodes \cup {r}
                                           \cup {e[2] : e \in RefEdges(r, d, st)},
                              edges |-> b.graph.edges \cup RefEdges(r, d, st)],
                   !.added = @ \cup {r}]

InitRefs ==
    /\ references \in [Names -> Definitions]
    /\ references["A"] = {}
    /\ strict \in [Names -> BOOLEAN]
    /\ \A n \in Names \ {"A"} : strict[n]
    /\ built = NoBuild

\* Stack.__init__, lines 96-101: one pass of the loop of _get_dependencies,
\* which ends at the first exception
refs_add(n) ==
    /\ built.raised = ""
    /\ n \notin built.added
    /\ built' = add_dependencies_refs(built, n, references[n], strict)
    /\ UNCHANGED <<references, strict>>
    /\ UNCHANGED notRefs

NextRefs ==
    \E n \in Names : refs_add(n)

(***************************************************************************)
(* Stack (heat/engine/parser.py) and DependencyTaskGroup                   *)
(***************************************************************************)
\* what the last restart_resource did: the resource named, the resources it
\* reached that had a state, the order create() was called in, and the
\* value its variable failed ended with
NoRestart == [name |-> "", had |-> {}, start |-> <<>>, failed |-> FALSE]

\* Stack.__init__ for a stack that is not in the database
NewStack ==
    [action |-> NoState, status |-> NoState, status_reason |-> "",
     op |-> "none", reverse |-> FALSE, id |-> 1, disable_rollback |-> TRUE,
     calls |-> 0, log |-> <<>>, t |-> 0, seq |-> <<>>,
     raised |-> "none", rs |-> NoRestart, timeout |-> FALSE,
     called |-> "none", arg |-> ""]

NoGroup == [active |-> FALSE, reverse |-> FALSE, failures |-> <<>>,
            stepped |-> {}]

\* str.lower() and str.title() of an action name
Lower(action) ==
    CASE action = CREATE -> "create"
      [] action = SUSPEND -> "suspend"
      [] OTHER -> action

Title(action) ==
    CASE action = CREATE -> "Create"
      [] action = SUSPEND -> "Suspend"
      [] OTHER -> action

\* Stack.state_set
stack_state_set(st, action, status, reason) ==
    [st EXCEPT !.action = action, !.status = status, !.status_reason = reason,
               !.log = Append(@, <<action, status>>)]

\* a call of a stack action begins: op is in flight, and log will hold the
\* states the call records; called keeps the name of the call when it has
\* ended, and arg the action it was given if not the default one
StackCalled(st, op) ==
    [st EXCEPT !.op = op, !.calls = @ + 1, !.log = <<>>, !.seq = <<>>,
               !.raised = "none", !.rs = NoRestart, !.timeout = FALSE,
               !.called = op, !.arg = ""]

\* stack_task, lines 325-327: the reverse flag handed to the task group
GroupReverse_Dropped(reverse) ==
    FALSE

GroupReverse(reverse) ==
    reverse

\* stack_task, lines 310-338: the state recorded when the task group has
\* ended, fails being the failures of its tasks, the first one re-raised
StackTaskEnd_IgnoreFailure(st, action, fails) ==
    stack_state_set(st, action, COMPLETE,
                    "Stack " \o Lower(action) \o " completed successfully")

StackTaskEnd(st, action, fails) ==
    IF fails = <<>>
    THEN stack_state_set(st, action, COMPLETE,
                         "Stack " \o Lower(action) \o " completed successfully")
    ELSE stack_state_set(st, action, FAILED,
                         "Resource " \o Lower(action) \o " failed: "
                             \o fails[1].msg)

\* stack_task, lines 314-323: resource_action(r), run by TaskRunner.start()
resource_action(action, r, hk, pre_out, out) ==
    IF action = CREATE THEN create(r, hk, pre_out, out)
    ELSE suspend(r, hk, out)

\* the state of a TaskRunner after a start() or step() of its task
RunnerOf(r) ==
    IF r.raised # "none" THEN "failed"
    ELSE IF r.task = "suspended" THEN "running"
    ELSE "done"

\* DependencyTaskGroup: the nodes whose tasks must have completed before
\* the task of n is started
MustPrecede(g, n, reverse) ==
    IF reverse THEN required_by(g, n) ELSE Requires(g, n)

\* DependencyTaskGroup: n has not been started and may be started now
Startable(n) ==
    /\ runner[n] = "pending"
    /\ grp.failures = <<>>
    /\ \A m \in MustPrecede(deps, n, grp.reverse) : runner[m] = "done"

\* DependencyTaskGroup: no task runs and none can be started
GroupOver(rn, fails) ==
    /\ \A n \in Names : rn[n] # "running"
    /\ fails # <<>> \/
          \A n \in Names :
              rn[n] = "pending" =>
                  \E m \in MustPrecede(deps, n, grp.reverse) : rn[m] # "done"

\* the failures of the group after the task of n has been started or stepped
Failures(n, r) ==
    IF r.raised # "none"
    THEN Append(grp.failures, [node |-> n, msg |-> r.exc])
    ELSE grp.failures

\* Resource.__str__
StrResource(n) == "Resource \"" \o n \o "\""

\* ', '.join(failures)
RECURSIVE Join(_)
Join(q) ==
    IF q = <<>> THEN ""
    ELSE IF Len(q) = 1 THEN StrResource(q[1])
    ELSE StrResource(q[1]) \o ", " \o Join(Tail(q))

\* Stack.delete, lines 437-443: res.destroy() for each resource of the
\* sequence; outs is what the handle_delete of each does
RECURSIVE DestroyAll_StopAtFailure(_, _, _)
DestroyAll_StopAtFailure(rs, seq, outs) ==
    IF seq = <<>> THEN [res |-> rs, failures |-> <<>>, calls |-> <<>>]
    ELSE LET n == Head(seq)
             r == destroy(rs[n], hooks[n], outs[n])
             rest == IF r.raised # "none"
                     THEN [res |-> [rs EXCEPT ![n] = r], failures |-> <<>>,
                           calls |-> <<>>]
                     ELSE DestroyAll_StopAtFailure([rs EXCEPT ![n] = r],
                                                   Tail(seq), outs)
         IN  [res |-> rest.res,
              failures |-> IF r.raised # "none" THEN <<n>> \o rest.failures
                           ELSE rest.failures,
              calls |-> <<n>> \o rest.calls]

RECURSIVE DestroyAll(_, _, _)
DestroyAll(rs, seq, outs) ==
    IF seq = <<>> THEN [res |-> rs, failures |-> <<>>, calls |-> <<>>]
    ELSE LET n == Head(seq)
             r == destroy(rs[n], hooks[n], outs[n])
             rest == DestroyAll([rs EXCEPT ![n] = r], Tail(seq), outs)
         IN  [res |-> rest.res,
              failures |-> IF r.raised # "none" THEN <<n>> \o rest.failures
                           ELSE rest.failures,
              calls |-> <<n>> \o rest.calls]

\* Stack.delete, line 437: reversed(self), the order the resources are
\* destroyed in
DeleteOrder_Forward(g, p) ==
    topological_order(g, p)

DeleteOrder(g, p) ==
    reverse_order(g, p)

\* Stack.delete(action), lines 433-451, for action DELETE or ROLLBACK
StackDeleteEnd_AlwaysComplete(st, action, failures) ==
    [stack_state_set(st, action, COMPLETE, action \o " completed")
        EXCEPT !.id = None]

StackDeleteEnd(st, action, failures) ==
    IF failures # <<>>
    THEN stack_state_set(st, action, FAILED,
                         "Failed to " \o action \o " : " \o Join(failures))
    ELSE [stack_state_set(st, action, COMPLETE, action \o " completed")
             EXCEPT !.id = None]

StackDelete(st, rs, seq, action, outs) ==
    LET st1 == stack_state_set(st, action, IN_PROGRESS,
                               "Stack " \o action \o " started")
        d == DestroyAll(rs, seq, outs)
    IN  [stack |-> [StackDeleteEnd(st1, action, d.failures)
                       EXCEPT !.seq = d.calls],
         res |-> d.res]

\* Stack.create, lines 290-293: whether rollback() deletes the stack
RollbackNeeded_Never(st) ==
    FALSE

RollbackNeeded(st) ==
    ~st.disable_rollback /\ <<st.action, st.status>> = <<CREATE, FAILED>>

\* stack_task, lines 340-341: post_func, which is rollback for a create
PostFunc(st, rs, seq, outs) ==
    IF st.op = "create" /\ RollbackNeeded(st)
    THEN StackDelete(st, rs, seq, ROLLBACK, outs)
    ELSE [stack |-> st, res |-> rs]

\* what the handle_delete hooks of the resources do in one Stack.delete:
\* each deletes and clears its resource_id or raises, or one of them deletes
\* and keeps its resource_id
DeleteOuts ==
    [Names -> {"clear", "raise"}] \cup
    {[[n \in Names |-> "clear"] EXCEPT ![m] = "ok"] : m \in Names}

NoOuts == [n \in Names |-> "clear"]

\* the task of n has been started or stepped and left its resource as r:
\* the next round begins when every running task has been stepped, and
\* stack_task goes on to its end when the group is over
Advance(n, r, stepping) ==
    LET rn == [runner EXCEPT ![n] = RunnerOf(r)]
        fails == Failures(n, r)
        turn == IF stepping THEN grp.stepped \cup {n} ELSE grp.stepped
        waiting == {m \in Names : rn[m] = "running"} \ turn
        rs == [res EXCEPT ![n] = r]
        ended == StackTaskEnd(stack, stack.action, fails)
        seq == DeleteOrder(deps, prio)
    IN  /\ runner' = rn
        /\ IF GroupOver(rn, fails)
           THEN /\ grp' = [grp EXCEPT !.active = FALSE, !.failures = fails,
                                      !.stepped = {}]
                /\ \E outs \in (IF stack.op = "create" /\ RollbackNeeded(ended)
                                THEN DeleteOuts ELSE {NoOuts}) :
                      LET post == PostFunc(ended, rs, seq, outs)
                      IN  /\ stack' = [post.stack EXCEPT !.op = "none"]
                          /\ res' = post.res
           ELSE /\ grp' = [grp EXCEPT !.failures = fails,
                                      !.stepped = IF stepping /\ waiting = {}
                                                  THEN {} ELSE turn]
                /\ res' = rs
                /\ UNCHANGED stack

\* scheduler.Timeout is raised in a task group at its yield: the runners
\* of the tasks that are running are cancelled
CancelAll_None(rs, rn) ==
    rs

CancelAll(rs, rn) ==
    [n \in Names |-> IF rn[n] = "running" THEN cancel(rs[n]) ELSE rs[n]]

Cancelled(rn) ==
    [n \in Names |-> IF rn[n] = "running" THEN "cancelled" ELSE rn[n]]

\* the task group is at its yield: every task that could be started has
\* been, and none has been stepped since
AtYield ==
    /\ grp.active
    /\ grp.stepped = {}
    /\ \A m \in Names : ~Startable(m)

\* stack_task, lines 335-341: the Timeout handler, state_set and post_func
StackTaskTimedOut(st, action) ==
    [stack_state_set(st, action, FAILED, Title(action) \o " timed out")
        EXCEPT !.timeout = TRUE]

\* the TaskRunner of stack_task finds the timeout of the stack expired
stack_timeout ==
    /\ AtYield
    /\ stack.op \in {"create", "suspend"}
    /\ LET rs == CancelAll(res, runner)
           ended == StackTaskTimedOut(stack, stack.action)
           seq == DeleteOrder(deps, prio)
       IN  /\ runner' = Cancelled(runner)
           /\ grp' = [grp EXCEPT !.active = FALSE]
           /\ \E outs \in (IF stack.op = "create" /\ RollbackNeeded(ended)
                           THEN DeleteOuts ELSE {NoOuts}) :
                 LET post == PostFunc(ended, rs, seq, outs)
                 IN  /\ stack' = [post.stack EXCEPT !.op = "none"]
                     /\ res' = post.res
    /\ UNCHANGED <<hooks, ncalls, graphVars>>
    /\ UNCHANGED notStack

\* stack_task, lines 307-327, entered from Stack.create or Stack.suspend
StackTaskStart(op, action, reverse) ==
    /\ stack.calls < MaxStackCalls
    /\ stack' = [stack_state_set(StackCalled(stack, op), action, IN_PROGRESS,
                                 "Stack " \o action \o " started")
                    EXCEPT !.reverse = reverse]
    /\ grp' = [active |-> TRUE, reverse |-> GroupReverse(reverse),
               failures |-> <<>>, stepped |-> {}]
    /\ runner' = [n \in Names |-> "pending"]

\* Stack.create(): stack_task(action=CREATE, reverse=False)
CreateReverse_Reversed ==
    TRUE

CreateReverse ==
    FALSE

stack_create ==
    /\ stack.op = "none"
    /\ stack.action = NoState
    /\ StackTaskStart("create", CREATE, CreateReverse)
    /\ UNCHANGED <<resVars, graphVars>>
    /\ UNCHANGED notStack

\* Stack.suspend(): stack_task(action=SUSPEND, reverse=True)
stack_suspend ==
    /\ stack.op = "none"
    /\ stack.action = CREATE
    /\ StackTaskStart("suspend", SUSPEND, TRUE)
    /\ UNCHANGED <<resVars, graphVars>>
    /\ UNCHANGED notStack

\* Stack.delete(): every resource is destroyed within the call
stack_delete ==
    /\ stack.op = "none"
    /\ stack.id # None
    /\ stack.calls < MaxStackCalls
    /\ LET seq == DeleteOrder(deps, prio)
       IN  \E outs \in DeleteOuts :
              LET d == StackDelete(StackCalled(stack, "delete"), res, seq,
                                   DELETE, outs)
              IN  /\ stack' = [d.stack EXCEPT !.op = "none"]
                  /\ res' = d.res
    /\ UNCHANGED <<hooks, ncalls, runner, grp, graphVars>>
    /\ UNCHANGED notStack

\* DependencyTaskGroup: at the beginning of a round, start the task of n
group_start(n) ==
    /\ grp.active
    /\ stack.op \in {"create", "suspend"}
    /\ grp.stepped = {}
    /\ Startable(n)
    /\ \E pre_out \in HandleOutcomes, out \in HandleOutcomes :
          Advance(n, resource_action(stack.action, res[n], hooks[n],
                                     pre_out, out), FALSE)
    /\ UNCHANGED <<hooks, ncalls, graphVars>>
    /\ UNCHANGED notStack

\* DependencyTaskGroup: step the running task of n, once per round
group_step(n) ==
    /\ grp.active
    /\ stack.op \in {"create", "suspend"}
    /\ runner[n] = "running"
    /\ n \notin grp.stepped
    /\ grp.stepped # {} \/ \A m \in Names : ~Startable(m)
    /\ \E out \in CheckOutcomes :
          /\ out = "false" => res[n].polls < MaxPolls
          /\ Advance(n, step(res[n], hooks[n], out), TRUE)
    /\ UNCHANGED <<hooks, ncalls, graphVars>>
    /\ UNCHANGED notStack

\* the templates of the stacks driven: a resource refers only to resources
\* that come before it in the template
StackTemplates ==
    {t \in Templates :
        \A n \in Names : \A m \in t[n] :
            <<m, n>> \in {<<"A", "B">>, <<"A", "C">>, <<"B", "C">>}}

StackHookKinds == {[handle |-> TRUE, check |-> TRUE],
                   [handle |-> FALSE, check |-> FALSE]}

InitStack ==
    /\ tmpl \in StackTemplates
    /\ prio = [n \in Names |-> 1]
    /\ deps = get_dependencies(NoGraph, Names, tmpl)
    /\ added = Names
    /\ order = <<>>
    /\ rorder = <<>>
    /\ res = [n \in Names |-> NewResource]
    /\ hooks \in {h \in [Names -> StackHookKinds] :
                     Cardinality({n \in Names : ~h[n].handle}) <= 1}
    /\ ncalls = 0
    /\ stack \in {[NewStack EXCEPT !.disable_rollback = b] : b \in BOOLEAN}
    /\ runner = [n \in Names |-> "none"]
    /\ grp = NoGroup

NextStack ==
    \/ stack_create
    \/ stack_suspend
    \/ stack_delete
    \/ \E n \in Names : group_start(n)
    \/ \E n \in Names : group_step(n)

(***************************************************************************)
(* Stack.update (heat/engine/parser.py) and StackUpdate                    *)
(***************************************************************************)
NoUpd == [action |-> NoState, old |-> 0, target |-> 0, reverts |-> 0,
          ops |-> [n \in Names |-> <<>>]]

\* Stack.update, lines 361-368: whether the state of the stack admits the
\* update; the rollback is entered from (UPDATE, IN_PROGRESS)
UpdateAllowed_Always(st, action) ==
    TRUE

UpdateAllowed(st, action) ==
    \/ st.status = COMPLETE
    \/ action = ROLLBACK /\ <<st.action, st.status>> = <<UPDATE, IN_PROGRESS>>

\* Stack.update, lines 370-371
UpdateBegin(st, action) ==
    stack_state_set(st, UPDATE, IN_PROGRESS, "Stack " \o action \o " started")

\* Stack.update, lines 383-387
UpdateReason(action) ==
    IF action = UPDATE THEN "Stack successfully updated"
    ELSE "Stack rollback completed"

\* Stack.update, lines 396-405: whether update() is invoked again, with the
\* stack built from the current template, after a ResourceFailure
UpdateRollback_Never(st, action) ==
    FALSE

UpdateRollback(st, action) ==
    action = UPDATE /\ ~st.disable_rollback

\* Stack.update, lines 407-418: the final state is recorded, the template
\* becomes the one of newstack and the call returns
\* Stack.update, lines 392-393: str(e) of the ResourceFailure re-raised by
\* the task group, the first failure of its tasks
UpdateFailureReason_Empty(fails) ==
    ""

UpdateFailureReason(fails) ==
    fails[1].msg

UpdateFinish_KeepTemplate(st, action, status, reason, ver) ==
    [stack_state_set(st, action, status, reason) EXCEPT !.op = "none"]

UpdateFinish(st, action, status, reason, ver) ==
    [stack_state_set(st, action, status, reason)
        EXCEPT !.t = ver, !.op = "none"]

\* StackUpdate: the definition of n in the template of version ver is not
\* the one n has now
Differs(n, ver) ==
    change[n] # "same" /\ defn[n] # ver

\* what the validation and the hooks of one resource do in its update task
UpdOuts ==
    [pre : HandleOutcomes, out : UpdateOutcomes, del : DeleteOutcomes,
     cpre : HandleOutcomes, cout : HandleOutcomes]

\* one entry of upd.ops: what was called on the resource, how it ended,
\* whether its handle_ hook was invoked and the resource_id it left
OpDone(op, r) ==
    [op |-> op,
     out |-> IF r.raised = "UpdateReplace" THEN "UpdateReplace"
             ELSE IF r.raised # "none" THEN "failed" ELSE "ok",
     handle |-> Pos(r.trace, "handle") > 0,
     rid |-> r.resource_id]

\* StackUpdate, replacement: the old resource is destroyed, then a new
\* Resource is made from the new definition and created
Replace_WithoutDelete(r, hk, o) ==
    LET n == [NewResource EXCEPT !.made = r.made]
        c == create(n, hk, o.cpre, o.cout)
    IN  [r |-> c, replaced |-> TRUE,
         ops |-> <<OpDone("new", n), OpDone("create", c)>>]

Replace(r, hk, o) ==
    LET d == destroy(r, hk, o.del)
        n == [NewResource EXCEPT !.made = d.made]
        c == create(n, hk, o.cpre, o.cout)
    IN  IF d.raised # "none"
        THEN [r |-> d, replaced |-> FALSE, ops |-> <<OpDone("destroy", d)>>]
        ELSE [r |-> c, replaced |-> TRUE,
              ops |-> <<OpDone("destroy", d), OpDone("new", n),
                        OpDone("create", c)>>]

\* Resource.update, lines 418-419: what the two diffs of the definition of n
\* find
DiffKind_AlwaysReplace(n) ==
    "replace"

DiffKind(n) ==
    IF change[n] = "replace" THEN "replace" ELSE "allowed"

\* StackUpdate, the task of resource n up to its first suspension: nothing
\* when the definition is unchanged, else Resource.update() and, when that
\* raises UpdateReplace, the replacement
UpdateResource(n, ver, o) ==
    LET u == update(res[n], o.pre, DiffKind(n), o.out)
        p == Replace(u, hooks[n], o)
    IN  IF ~Differs(n, ver)
        THEN [r |-> res[n], defn |-> defn[n], run |-> "done", ops |-> <<>>]
        ELSE IF u.raised = "UpdateReplace"
        THEN [r |-> p.r, defn |-> IF p.replaced THEN ver ELSE defn[n],
              run |-> RunnerOf(p.r),
              ops |-> <<OpDone("update", u)>> \o p.ops]
        ELSE [r |-> u, defn |-> IF u.raised = "none" THEN ver ELSE defn[n],
              run |-> RunnerOf(u), ops |-> <<OpDone("update", u)>>]

NewGroup == [active |-> TRUE, reverse |-> FALSE, failures |-> <<>>,
             stepped |-> {}]

\* Stack.update, lines 376-418, once the tasks of StackUpdate have ended
\* with the runner states rn and the failures fails
UpdateEnd(rn, fails, up) ==
    IF fails = <<>>
    THEN /\ stack' = UpdateFinish(stack, up.action, COMPLETE,
                                  UpdateReason(up.action), up.target)
         /\ grp' = [grp EXCEPT !.active = FALSE, !.failures = fails,
                               !.stepped = {}]
         /\ runner' = rn
         /\ upd' = up
    ELSE IF ~UpdateRollback(stack, up.action)
    THEN /\ stack' = UpdateFinish(stack, up.action, FAILED,
                                  UpdateFailureReason(fails), up.target)
         /\ grp' = [grp EXCEPT !.active = FALSE, !.failures = fails,
                               !.stepped = {}]
         /\ runner' = rn
         /\ upd' = up
    ELSE IF ~UpdateAllowed(stack, ROLLBACK)
    THEN /\ stack' = [stack_state_set(stack, ROLLBACK, FAILED,
                                      "State invalid for " \o ROLLBACK)
                         EXCEPT !.op = "none"]
         /\ grp' = [grp EXCEPT !.active = FALSE, !.failures = fails,
                               !.stepped = {}]
         /\ runner' = rn
         /\ upd' = [up EXCEPT !.reverts = @ + 1]
    ELSE /\ stack' = UpdateBegin(stack, ROLLBACK)
         /\ grp' = NewGroup
         /\ runner' = [m \in Names |-> "pending"]
         /\ upd' = [up EXCEPT !.action = ROLLBACK, !.target = stack.t,
                              !.reverts = @ + 1]

\* the update task of n has been started or stepped and left its resource
\* as r and its runner in state run
AdvanceUpdate(n, r, run, up, stepping) ==
    LET rn == [runner EXCEPT ![n] = run]
        fails == IF run = "failed"
                 THEN Append(grp.failures, [node |-> n, msg |-> r.exc])
                 ELSE grp.failures
        turn == IF stepping THEN grp.stepped \cup {n} ELSE grp.stepped
        waiting == {m \in Names : rn[m] = "running"} \ turn
    IN  /\ res' = [res EXCEPT ![n] = r]
        /\ IF GroupOver(rn, fails)
           THEN UpdateEnd(rn, fails, up)
           ELSE /\ runner' = rn
                /\ grp' = [grp EXCEPT !.failures = fails,
                                      !.stepped = IF stepping /\ waiting = {}
                                                  THEN {} ELSE turn]
                /\ upd' = up
                /\ UNCHANGED stack

\* Stack.update(newstack), lines 355-374, newstack being built from the next
\* version of the template
stack_update ==
    /\ stack.op = "none"
    /\ stack.id # None
    /\ stack.calls < MaxStackCalls
    /\ upd' = [NoUpd EXCEPT !.action = UPDATE, !.old = stack.t,
                            !.target = stack.t + 1]
    /\ IF ~UpdateAllowed(stack, UPDATE)
       THEN /\ stack' = [stack_state_set(StackCalled(stack, "update"), UPDATE,
                                         FAILED, "State invalid for " \o UPDATE)
                            EXCEPT !.op = "none"]
            /\ UNCHANGED <<runner, grp>>
       ELSE /\ stack' = UpdateBegin(StackCalled(stack, "update"), UPDATE)
            /\ grp' = NewGroup
            /\ runner' = [m \in Names |-> "pending"]
    /\ UNCHANGED <<res, defn>>
    /\ UNCHANGED notStackUpdate

\* StackUpdate: at the beginning of a round, start the update task of n
update_start(n) ==
    /\ grp.active
    /\ stack.op = "update"
    /\ grp.stepped = {}
    /\ Startable(n)
    /\ \E u \in {UpdateResource(n, upd.target, o) : o \in UpdOuts} :
          /\ defn' = [defn EXCEPT ![n] = u.defn]
          /\ AdvanceUpdate(n, u.r, u.run,
                           [upd EXCEPT !.ops[n] = @ \o u.ops], FALSE)
    /\ UNCHANGED notStackUpdate

\* StackUpdate: step the running task of n, the create of a replacement
update_step(n) ==
    /\ grp.active
    /\ stack.op = "update"
    /\ runner[n] = "running"
    /\ n \notin grp.stepped
    /\ grp.stepped # {} \/ \A m \in Names : ~Startable(m)
    /\ \E out \in CheckOutcomes :
          /\ out = "false" => res[n].polls < MaxPolls
          /\ LET r == step(res[n], hooks[n], out)
             IN  AdvanceUpdate(n, r, RunnerOf(r), upd, TRUE)
    /\ UNCHANGED defn
    /\ UNCHANGED notStackUpdate

\* Stack.update, lines 392-394 and 407-418: the TaskRunner of StackUpdate
\* finds the timeout of the stack expired
update_timeout ==
    /\ AtYield
    /\ stack.op = "update"
    /\ res' = CancelAll(res, runner)
    /\ runner' = Cancelled(runner)
    /\ grp' = [grp EXCEPT !.active = FALSE]
    /\ stack' = [UpdateFinish(stack, upd.action, FAILED, "Timed out",
                              upd.target)
                    EXCEPT !.timeout = TRUE]
    /\ UNCHANGED <<defn, upd>>
    /\ UNCHANGED notStackUpdate

\* the template of the stacks updated: B requires A, and C stands alone
UpdateTemplates ==
    {t \in StackTemplates : t["B"] = {"A"} /\ t["C"] = {}}

\* the hooks of the resources of the stacks updated: the actions of A end
\* when their handle_ hook returns, those of B are polled, C has no hook
UpdateHooks ==
    [A |-> [handle |-> TRUE, check |-> FALSE],
     B |-> [handle |-> TRUE, check |-> TRUE],
     C |-> [handle |-> FALSE, check |-> FALSE]]

\* the differences between successive templates: the definitions of A and
\* B change, the one of C never does
UpdateChanges ==
    {c \in [Names -> {"same", "allowed", "replace"}] :
        c["A"] # "same" /\ c["B"] # "same" /\ c["C"] = "same"}

InitStackUpdate ==
    /\ tmpl \in UpdateTemplates
    /\ prio = [n \in Names |-> 1]
    /\ deps = get_dependencies(NoGraph, Names, tmpl)
    /\ added = Names
    /\ order = <<>>
    /\ rorder = <<>>
    /\ res = [n \in Names |-> NewResource]
    /\ hooks = UpdateHooks
    /\ ncalls = 0
    /\ stack \in {[NewStack EXCEPT !.disable_rollback = b] : b \in BOOLEAN}
    /\ runner = [n \in Names |-> "none"]
    /\ grp = NoGroup
    /\ defn = [n \in Names |-> 0]
    /\ change \in UpdateChanges
    /\ upd = NoUpd

\* the action arguments tried that neither Stack.update nor Stack.delete
\* admits: a stack action of another call, and a name that is no action
InvalidActions == {CREATE, "BOGUS"}

\* Stack.update, lines 355-359, and Stack.delete, lines 428-432: the test
\* of the action argument
UpdateActions == {UPDATE, ROLLBACK}
DeleteActions == {DELETE, ROLLBACK}

\* the call records (action, FAILED) and returns
InvalidAction(st, op, action, arg) ==
    [stack_state_set([StackCalled(st, op) EXCEPT !.arg = arg], action,
                     FAILED, "Invalid action " \o arg)
        EXCEPT !.op = "none"]

\* Stack.update(newstack, action) with an action it does not admit
stack_update_invalid ==
    /\ stack.op = "none"
    /\ stack.id # None
    /\ stack.calls < MaxStackCalls
    /\ \E action \in InvalidActions \ UpdateActions :
          stack' = InvalidAction(stack, "update", UPDATE, action)
    /\ UNCHANGED <<res, runner, grp, defn, upd>>
    /\ UNCHANGED notStackUpdate

\* Stack.delete(action) with an action it does not admit
stack_delete_invalid ==
    /\ stack.op = "none"
    /\ stack.id # None
    /\ stack.calls < MaxStackCalls
    /\ \E action \in InvalidActions \ DeleteActions :
          stack' = InvalidAction(stack, "delete", DELETE, action)
    /\ UNCHANGED <<res, runner, grp, defn, upd>>
    /\ UNCHANGED notStackUpdate

\* the calls of a stack and the arguments they refuse
NextStackCalls ==
    \/ stack_create
    \/ stack_delete
    \/ \E n \in Names : group_start(n)
    \/ \E n \in Names : group_step(n)
    \/ stack_update
    \/ \E n \in Names : update_start(n)
    \/ \E n \in Names : update_step(n)
    \/ stack_update_invalid
    \/ stack_delete_invalid

NextStackUpdate ==
    \/ stack_create
    \/ stack_suspend
    \/ stack_delete
    \/ \E n \in Names : group_start(n)
    \/ \E n \in Names : group_step(n)
    \/ stack_update
    \/ \E n \in Names : update_start(n)
    \/ \E n \in Names : update_step(n)
    \/ stack_timeout
    \/ update_timeout

(***************************************************************************)
(* A stack that has been created and stored: Stack.delete repeated, and    *)
(* Stack.restart_resource (heat/engine/parser.py)                          *)
(***************************************************************************)
\* Dependencies.__getitem__: the nodes of S and all that require them,
\* directly or not
RECURSIVE Dependents(_, _)
Dependents(g, S) ==
    LET T == S \cup {m \in g.nodes : \E n \in S : m \in required_by(g, n)}
    IN  IF T = S THEN S ELSE Dependents(g, T)

\* iter(self.dependencies[res]): the dependents of n in dependency order
SubOrder(g, p, n) ==
    LET members == Dependents(g, {n})
        In(m) == m \in members
    IN  SelectSeq(topological_order(g, p), In)

\* scheduler.TaskRunner(task)(): the task is started, and stepped until it
\* has ended; its check hook answers false k times and then as chk says
RECURSIVE RunSteps(_, _, _, _)
RunSteps(r, hk, k, chk) ==
    IF r.task # "suspended" THEN r
    ELSE IF k = 0 THEN step(r, hk, chk)
    ELSE RunSteps(step(r, hk, "false"), hk, k - 1, chk)

RunCreate(r, hk, o) ==
    RunSteps(create(r, hk, o.pre, o.out), hk, o.polls, o.chk)

\* what the validation and the hooks of one resource do during a create
\* run to its end
AllFine == [pre |-> "ok", out |-> "ok", polls |-> 0, chk |-> "true"]

RunOutcomes ==
    {AllFine,
     [AllFine EXCEPT !.pre = "raise"],
     [AllFine EXCEPT !.out = "raise"],
     [AllFine EXCEPT !.chk = "raise"],
     [AllFine EXCEPT !.polls = MaxPolls]}

\* restart_resource, lines 489-500: the loop that creates the resources
\* again; an exception that is not a ResourceFailure leaves the loop
RestartAborted_NotMarked(r) ==
    r

RestartAborted(r) ==
    state_set(r, CREATE, FAILED, "Resource restart aborted")

RECURSIVE RecreateAll(_, _, _, _)
RecreateAll(rs, seq, failed, outs) ==
    IF seq = <<>>
    THEN [res |-> rs, start |-> <<>>, failed |-> failed, raised |-> "none"]
    ELSE LET n == Head(seq)
         IN  IF failed
             THEN RecreateAll([rs EXCEPT ![n] = RestartAborted(rs[n])],
                              Tail(seq), failed, outs)
             ELSE LET r == RunCreate(rs[n], hooks[n], outs[n])
                      rs1 == [rs EXCEPT ![n] = r]
                  IN  IF r.raised \notin {"none", "ResourceFailure"}
                      THEN [res |-> rs1, start |-> <<n>>, failed |-> failed,
                            raised |-> r.raised]
                      ELSE LET rest == RecreateAll(rs1, Tail(seq),
                                           r.raised = "ResourceFailure", outs)
                           IN  [rest EXCEPT !.start = <<n>> \o @]

\* restart_resource, lines 474-500
RestartResource(st, rs, g, p, name, douts, couts) ==
    LET seq == SubOrder(g, p, name)
        d == DestroyAll(rs, Reverse(seq), douts)
        c == RecreateAll(d.res, seq, d.failures # <<>>, couts)
    IN  [stack |-> [st EXCEPT !.seq = d.calls,
                              !.raised = c.raised,
                              !.rs = [name |-> name,
                                      had |-> {n \in Dependents(g, {name}) :
                                                  rs[n].action # NoState},
                                      start |-> c.start,
                                      failed |-> c.failed]],
         res |-> c.res]

\* what the hooks do during one restart_resource: the deletions as in a
\* Stack.delete, and at most one create that does not simply succeed
RestartCreateOuts ==
    {[[n \in Names |-> AllFine] EXCEPT ![m] = o] :
        m \in Names, o \in RunOutcomes}

restart_resource(name) ==
    /\ stack.op = "none"
    /\ stack.id # None
    /\ stack.calls < MaxStackCalls
    /\ \E x \in {RestartResource(StackCalled(stack, "restart"), res, deps,
                                 prio, name, douts, couts) :
                    douts \in DeleteOuts, couts \in RestartCreateOuts} :
          /\ stack' = [x.stack EXCEPT !.op = "none"]
          /\ res' = x.res
    /\ UNCHANGED <<hooks, ncalls, runner, grp, graphVars>>
    /\ UNCHANGED notStack

\* a resource after a create() that ran to its end, and one after a
\* create() whose validation raised
CreatedResource(hk) == RunCreate(NewResource, hk, AllFine)
FailedResource(hk) ==
    RunCreate(NewResource, hk, [AllFine EXCEPT !.pre = "raise"])

\* the stack after a Stack.create() without rollback in which the create of
\* the resources of broken failed: those that depend on them were not
\* started
StoredResources(g, hk, broken) ==
    [n \in Names |->
        IF n \in broken THEN FailedResource(hk[n])
        ELSE IF n \in Dependents(g, broken) THEN NewResource
        ELSE CreatedResource(hk[n])]

StoredStack(hk, broken) ==
    LET st == stack_state_set(NewStack, CREATE, IN_PROGRESS,
                              "Stack CREATE started")
        fails == IF broken = {} THEN <<>>
                 ELSE LET n == CHOOSE x \in broken : TRUE
                      IN  <<[node |-> n, msg |-> FailedResource(hk[n]).exc]>>
    IN  [StackTaskEnd(st, CREATE, fails) EXCEPT !.log = <<>>]

StoredTemplates ==
    {t \in StackTemplates : "A" \in t["B"] /\ "A" \notin t["C"]}

InitStored ==
    /\ tmpl \in StoredTemplates
    /\ prio = [n \in Names |-> 1]
    /\ deps = get_dependencies(NoGraph, Names, tmpl)
    /\ added = Names
    /\ order = <<>>
    /\ rorder = <<>>
    /\ hooks \in {h \in [Names -> StackHookKinds] :
                     h["A"].handle /\ h["B"].handle}
    /\ ncalls = 0
    /\ \E broken \in {{}, {"B"}, {"C"}} :
          /\ res = StoredResources(deps, hooks, broken)
          /\ stack = StoredStack(hooks, broken)
    /\ runner = [n \in Names |-> "none"]
    /\ grp = NoGroup

NextStored ==
    \/ stack_delete
    \/ \E n \in Names : restart_resource(n)

(***************************************************************************)
(* Specifications: each drives one component and leaves the others idle    *)
(***************************************************************************)
IdleLock ==
    /\ lockRows = {}
    /\ alive = [e \in AllEngines |-> e # Crashed]
    /\ held = [e \in AllEngines |-> FALSE]
    /\ pc = [e \in AllEngines |-> "idle"]
    /\ seen = [e \in AllEngines |-> None]
    /\ retry = [e \in AllEngines |-> TRUE]
    /\ answer = [e \in AllEngines |-> "none"]
    /\ outcome = [e \in AllEngines |-> "none"]
    /\ inserts = [e \in AllEngines |-> 0]
    /\ steals = [e \in AllEngines |-> 0]
    /\ raced = [e \in AllEngines |-> FALSE]
    /\ calls = 0
    /\ timedOut = FALSE

IdleRes ==
    /\ res = [n \in Names |-> NewResource]
    /\ hooks = [n \in Names |-> [handle |-> TRUE, check |-> TRUE]]
    /\ ncalls = 0

IdleGraph ==
    /\ tmpl = [n \in Names |-> {}]
    /\ prio = [n \in Names |-> 1]
    /\ deps = NoGraph
    /\ added = {}
    /\ order = <<>>
    /\ rorder = <<>>

IdleRefs ==
    /\ references = [n \in Names |-> {}]
    /\ strict = [n \in Names |-> TRUE]
    /\ built = NoBuild

IdleStack ==
    /\ stack = NewStack
    /\ runner = [n \in Names |-> "none"]
    /\ grp = NoGroup

IdleStackUpdate ==
    /\ defn = [n \in Names |-> 0]
    /\ change = [n \in Names |-> "same"]
    /\ upd = NoUpd

IdleUpdate ==
    /\ snippet = [Metadata |-> None, Properties |-> [k \in PropKeys |-> 1]]
    /\ klass = [keys |-> {}, props |-> {}]
    /\ target = snippet
    /\ updArgs = NoArgs

InitLockOnly ==
    /\ InitLock /\ IdleRefs /\ IdleRes /\ IdleGraph /\ IdleStack
    /\ IdleUpdate
    /\ IdleStackUpdate
SpecLock == InitLockOnly /\ [][NextLock]_vars

InitResourceOnly ==
    /\ InitResource /\ IdleLock /\ IdleRefs /\ IdleGraph /\ IdleStack
    /\ IdleUpdate
    /\ IdleStackUpdate
SpecResource == InitResourceOnly /\ [][NextResource]_vars
SpecEvents == InitResourceOnly /\ [][NextEvents]_vars

InitGraphOnly ==
    /\ InitGraph /\ IdleLock /\ IdleRefs /\ IdleRes /\ IdleStack
    /\ IdleUpdate
    /\ IdleStackUpdate
SpecGraph == InitGraphOnly /\ [][NextGraph]_vars

InitStackOnly ==
    InitStack /\ IdleLock /\ IdleRefs /\ IdleUpdate /\ IdleStackUpdate
SpecStack == InitStackOnly /\ [][NextStack]_vars

InitUpdateOnly ==
    /\ InitUpdate /\ IdleRes /\ IdleLock /\ IdleRefs /\ IdleGraph /\ IdleStack
    /\ IdleStackUpdate
SpecUpdate == InitUpdateOnly /\ [][NextUpdate]_vars

InitStackUpdateOnly ==
    InitStackUpdate /\ IdleLock /\ IdleRefs /\ IdleUpdate
SpecStackUpdate == InitStackUpdateOnly /\ [][NextStackUpdate]_vars
SpecStackCalls == InitStackUpdateOnly /\ [][NextStackCalls]_vars

InitStoredOnly ==
    InitStored /\ IdleLock /\ IdleRefs /\ IdleUpdate /\ IdleStackUpdate
SpecStored == InitStoredOnly /\ [][NextStored]_vars

InitRefsOnly ==
    /\ InitRefs /\ IdleLock /\ IdleRes /\ IdleGraph /\ IdleStack
    /\ IdleUpdate /\ IdleStackUpdate
SpecRefs == InitRefsOnly /\ [][NextRefs]_vars

(***************************************************************************)
(* Stack lock properties                                                   *)
(***************************************************************************)
Holders == {e \in AllEngines : alive[e] /\ held[e]}

\* C1: as long as every running engine has answered its liveness checks, the
\* lock table has at most one row for the stack, at most one running engine
\* is between a successful acquire() and its release(), and the row names it.
C1_MutualExclusion ==
    ~timedOut =>
        /\ Cardinality(lockRows) <= 1
        /\ Cardinality(Holders) <= 1
        /\ \A e \in Holders : lockRows = {e}

\* an engine holds the lock it stole from a dead holder while another engine
\* was refused
C1_Witness ==
    /\ ~timedOut
    /\ \E e \in Holders, d \in AllEngines, x \in Engines :
          /\ ~alive[d] /\ held[d]
          /\ outcome[e] = "stole" /\ lockRows = {e}
          /\ x # e /\ outcome[x] \in ActionInProgress

\* C2: when the insert finds a row naming the caller, or naming an engine
\* that answers the liveness check, acquire() raises ActionInProgress, makes
\* no steal attempt and no further insert, and leaves the row unchanged.
C2_LiveOwnerRaises ==
    [][\A e \in Engines :
          (/\ pc[e] = "check"
           /\ pc'[e] # "check"
           /\ (seen[e] = e \/ answer'[e] = "alive"))
          => /\ pc'[e] = "idle"
             /\ outcome'[e] = "owned"
             /\ lockRows' = lockRows
             /\ held'[e] = held[e]]_vars

\* one acquire() was refused by a live owner, another by the caller's own row
C2_Witness ==
    /\ \E e \in Engines : outcome[e] = "owned" /\ answer[e] = "alive"
    /\ \E e \in Engines : /\ outcome[e] = "owned" /\ answer[e] = "none"
                          /\ held[e] /\ lockRows = {e}

\* C3: an acquire() that found the row naming an engine which did not answer
\* the liveness check, and during which no other engine changed the row,
\* returns holding the lock, and the row names the caller.
C3_StealFromDead ==
    [][\A e \in Engines :
          (/\ pc[e] \in {"check", "steal"}
           /\ pc'[e] = "idle"
           /\ (~alive[seen[e]] \/ answer[e] = "dead")
           /\ ~raced[e])
          => /\ outcome'[e] = "stole"
             /\ held'[e]
             /\ lockRows' = {e}]_vars

\* the only acquire() made so far took over the row of the crashed engine
C3_Witness ==
    \E e \in Engines :
        /\ calls = 1
        /\ ~alive[Crashed] /\ held[Crashed]
        /\ alive[e] /\ held[e] /\ outcome[e] = "stole"
        /\ lockRows = {e}

\* C4 as stated: whenever the steal loses, for whichever reason, the first
\* pass of acquire() goes on to a retry.
C4_RetryOnAnyLoss ==
    [][\A e \in Engines :
          (/\ pc[e] = "steal"
           /\ pc'[e] # "steal"
           /\ inserts[e] = 1
           /\ seen[e] \notin lockRows)
          => pc'[e] = "retry"]_vars

\* C4 amended: the steal is followed by a retry exactly when it found no row
\* and the call is the first pass; a steal lost to another engine, and a
\* second steal that finds no row, end the call with ActionInProgress.  One
\* top-level acquire() makes at most two inserts and two steals and returns
\* holding the lock or raising ActionInProgress.
C4_RetryOnceAfterRelease ==
    /\ [](\A e \in Engines : inserts[e] <= 2 /\ steals[e] < inserts[e] + 1)
    /\ [][\A e \in Engines :
             (pc[e] = "steal" /\ pc'[e] # "steal")
             => /\ (pc'[e] = "retry") = (lockRows = {} /\ inserts[e] = 1)
                /\ (pc'[e] # "retry") =>
                      /\ pc'[e] = "idle"
                      /\ (outcome'[e] \in Acquired) = (seen[e] \in lockRows)
                      /\ (outcome'[e] \in ActionInProgress)
                             = (seen[e] \notin lockRows)
                      /\ held'[e] = (held[e] \/ outcome'[e] \in Acquired)]_vars
    /\ [][\A e \in Engines :
             (pc[e] = "retry" /\ pc'[e] # "retry")
             => /\ inserts[e] = 1
                /\ pc'[e] \in {"idle", "check"}
                /\ pc'[e] = "check" => ~retry'[e]]_vars

\* a retried acquire() found no row at its second steal either and gave up
C4_Witness ==
    \E e \in Engines :
        /\ pc[e] = "idle"
        /\ outcome[e] = "lost_retry"
        /\ ~held[e]
        /\ lockRows = {}

\* C5: release() by an engine removes the row only if the row names that
\* engine; a row naming another engine, and an empty table, are left as they
\* are, and the call ends without an error.
C5_ReleaseOwnRowOnly ==
    [][\A e \in Engines :
          release(e) =>
             /\ lockRows' = lockRows \ {e}
             /\ outcome'[e] \in {"released", "AlreadyReleased"}
             /\ (outcome'[e] = "AlreadyReleased") = (e \notin lockRows)]_vars

\* an engine whose row was stolen has called release(); the thief's row stays
C5_Witness ==
    \E e, o \in Engines :
        /\ o # e
        /\ outcome[e] = "AlreadyReleased" /\ ~held[e]
        /\ lockRows = {o} /\ held[o] /\ outcome[o] = "stole"

(***************************************************************************)
(* Resource state machine properties                                       *)
(***************************************************************************)

Before(t, x, y) == Pos(t, x) > 0 /\ Pos(t, x) < Pos(t, y)

\* the action a call drives the resource through
ActionOf(op) ==
    CASE op = "create" -> CREATE
      [] op = "suspend" -> SUSPEND
      [] op = "resume" -> RESUME
      [] op = "update" -> UPDATE
      [] op = "delete" -> DELETE
      [] OTHER -> NoState

\* C9: create() is accepted only in the initial state (None, None) and is
\* otherwise rejected with no state change and no hook call; an accepted
\* create() records (CREATE, IN_PROGRESS) first, then validates, then calls
\* handle_create, and records (CREATE, COMPLETE) only after the declared
\* handle_create has returned and the declared check_create_complete has
\* returned true.
C9_CreateOrder ==
    /\ [][\A n \in Driven :
             call_create(n) =>
                IF <<res[n].action, res[n].status>> = <<NoState, NoState>>
                THEN /\ res'[n].action = CREATE
                     /\ res'[n].trace # <<>>
                     /\ res'[n].trace[1] = IN_PROGRESS
                ELSE /\ res'[n].trace = <<>>
                     /\ res'[n].raised # "none"
                     /\ res'[n].action = res[n].action
                     /\ res'[n].status = res[n].status
                     /\ res'[n].task = "none"]_vars
    /\ [](\A n \in Driven :
             (res[n].op = "create" /\ res[n].trace # <<>>) =>
                LET t == res[n].trace IN
                /\ Pos(t, IN_PROGRESS) = 1
                /\ Pos(t, "validate") = 2
                /\ Pos(t, "handle") > 0 => Pos(t, "handle") = 3
                /\ Pos(t, COMPLETE) > 0 =>
                      /\ <<res[n].action, res[n].status>> = <<CREATE, COMPLETE>>
                      /\ Pos(t, COMPLETE) = Len(t)
                      /\ Pos(t, "raised") = 0
                      /\ hooks[n].handle => Before(t, "handle", COMPLETE)
                      /\ (hooks[n].handle /\ hooks[n].check) =>
                            /\ Before(t, "handle", "check_true")
                            /\ Pos(t, "check_true") = Len(t) - 1
                /\ <<res[n].action, res[n].status>> = <<CREATE, COMPLETE>>
                      => Pos(t, COMPLETE) > 0)

\* a create() went through handle_create and check_create_complete to
\* (CREATE, COMPLETE), and a later create() was rejected
C9_Witness ==
    \E n \in Driven :
        /\ res[n].op = "create"
        /\ res[n].raised = "AssertionError"
        /\ <<res[n].action, res[n].status>> = <<CREATE, COMPLETE>>
        /\ hooks[n].handle /\ hooks[n].check

\* C10 as stated: an exception raised by the validation or by a hook of any
\* action leaves (<action>, FAILED) with status_reason equal to the string
\* of the cause and reaches the caller as ResourceFailure.
C10_AnyExceptionFails ==
    \A n \in Driven :
        Pos(res[n].trace, "raised") > 0 =>
            /\ <<res[n].action, res[n].status>> = <<ActionOf(res[n].op), FAILED>>
            /\ res[n].status_reason = StrCause(Cause)
            /\ res[n].raised = "ResourceFailure"

\* the call ended with handle_update raising UpdateReplace
ReplaceSignalled(r) ==
    r.op = "update" /\ r.raised = "UpdateReplace"

\* C10 amended: an exception other than UpdateReplace raised by the
\* validation or by a hook of any action leaves (<action>, FAILED) with
\* status_reason equal to the string of the ResourceFailure that wraps the
\* cause, "<type>: <message>", and reaches the caller as ResourceFailure;
\* UpdateReplace raised by handle_update reaches the caller unchanged and
\* leaves (UPDATE, IN_PROGRESS).
C10_ExceptionFails ==
    \A n \in Driven :
        Pos(res[n].trace, "raised") > 0 =>
            IF ReplaceSignalled(res[n])
            THEN <<res[n].action, res[n].status>> = <<UPDATE, IN_PROGRESS>>
            ELSE /\ <<res[n].action, res[n].status>>
                        = <<ActionOf(res[n].op), FAILED>>
                 /\ res[n].status_reason = StrFailure(Cause)
                 /\ res[n].status_reason # StrCause(Cause)
                 /\ res[n].raised = "ResourceFailure"
                 /\ res[n].task # "suspended"

\* check_suspend_complete raised after a "not yet": (SUSPEND, FAILED)
C10_Witness ==
    \E n \in Driven :
        /\ res[n].op = "suspend"
        /\ res[n].polls > 0
        /\ Pos(res[n].trace, "raised") > 0
        /\ <<res[n].action, res[n].status>> = <<SUSPEND, FAILED>>
        /\ res[n].status_reason = "Exception: oops"

(***************************************************************************)
(* Dependency graph properties                                             *)
(***************************************************************************)
\* every element of S occurs exactly once in the sequence q
Permutation(q, S) ==
    /\ Len(q) = Cardinality(S)
    /\ \A n \in S : \E i \in 1..Len(q) : q[i] = n

\* C8: once the graph is built every resource is a node, with or without
\* edges; iterating over the stack yields every node exactly once, each node
\* after all nodes it requires, and iterating in reverse yields exactly the
\* reversed sequence, each node before all nodes it requires.
C8_TopologicalOrder ==
    /\ added = Names => deps.nodes = Names
    /\ \A n \in added : n \in deps.nodes /\ tmpl[n] = Requires(deps, n)
    /\ order # <<>> =>
          /\ Permutation(order, Names)
          /\ \A n \in Names : \A m \in tmpl[n] : Pos(order, m) < Pos(order, n)
    /\ rorder # <<>> =>
          /\ Permutation(rorder, Names)
          /\ \A n \in Names : \A m \in tmpl[n] : Pos(rorder, n) < Pos(rorder, m)
          /\ \A i \in 1..Len(rorder) :
                rorder[i] = topological_order(deps, prio)[Len(rorder) + 1 - i]

\* both orders of a stack with a resource that has no edges, where the
\* dictionary order is not a topological order
C8_Witness ==
    /\ order # <<>> /\ rorder # <<>>
    /\ \E n \in Names :
          /\ tmpl[n] = {}
          /\ \A m \in Names : n \notin tmpl[m]
    /\ \E n, m \in Names : m \in tmpl[n] /\ prio[n] < prio[m]


(***************************************************************************)
(* Claims about the task group of a stack action                           *)
(***************************************************************************)
\* the task of n is started by this step
Started(n) == runner[n] = "pending" /\ runner'[n] # "pending"

\* the resources whose tasks the action in flight must complete before the
\* task of n: those n requires, or for a suspend those requiring n
Prerequisites(n) ==
    IF stack.op = "suspend" THEN {m \in Names : n \in tmpl[m]} ELSE tmpl[n]

\* C6: for every edge 'B requires A' the task of B is started only after the
\* task of A has completed, and in a reversed group (suspend) the task of A
\* is started only after the task of B has completed, in every interleaving
\* of the round-robin stepping of the tasks.
C6_StartAfterPrerequisites ==
    [][\A n \in Names :
          Started(n) => \A m \in Prerequisites(n) : runner[m] = "done"]_vars

\* a reversed group in which the task of B has completed and the task of A,
\* which B requires, runs next to the polled task of an unrelated resource
C6_Witness ==
    /\ stack.op = "suspend"
    /\ \E a, b, c \in Names :
          /\ a \in tmpl[b]
          /\ c \notin {a, b} /\ tmpl[c] = {} /\ \A m \in Names : c \notin tmpl[m]
          /\ runner[b] = "done"
          /\ runner[a] = "running"
          /\ runner[c] = "running" /\ res[c].polls > 0

\* C7: after the first failure of a task no task is started; the group does
\* not end while a started task still runs; the stack action is set FAILED
\* with the first failure as its reason unless the timeout expires first
\* (the state it keeps unless a rollback follows); and during and after a
\* create a
\* resource with a requirement whose task has not completed stays in the
\* initial state.
C7_FirstFailureAborts ==
    /\ [][\A n \in Names : grp.failures # <<>> /\ grp.active => ~Started(n)]_vars
    /\ [](grp.active => stack.status = IN_PROGRESS /\ stack.op # "none")
    /\ [](~grp.active => \A n \in Names : runner[n] # "running")
    /\ []((/\ stack.op = "none" /\ grp.failures # <<>>
           /\ stack.log # <<>> /\ stack.log[1][1] \in {CREATE, SUSPEND}) =>
              /\ Len(stack.log) >= 2
              /\ stack.log[2] = <<stack.log[1][1], FAILED>>
              /\ runner[grp.failures[1].node] = "failed"
              /\ (Len(stack.log) = 2 /\ ~stack.timeout) =>
                    /\ stack.status = FAILED
                    /\ stack.status_reason =
                          "Resource " \o Lower(stack.action) \o " failed: "
                              \o grp.failures[1].msg)
    /\ [](stack.action = CREATE =>
              \A n \in Names :
                  (\E m \in tmpl[n] : runner[m] # "done") =>
                      /\ runner[n] = "pending"
                      /\ res[n].action = NoState /\ res[n].status = NoState)

\* a create that ended after two failures, the second one of a task that
\* was running when the first one failed, with a resource never started
C7_Witness ==
    /\ stack.op = "none" /\ stack.action = CREATE
    /\ Len(grp.failures) = 2
    /\ \E n \in Names :
          /\ runner[n] = "pending"
          /\ \E m \in tmpl[n] : runner[m] = "failed"

(***************************************************************************)
(* Claims about delete, suspend, resume and update of one resource         *)
(***************************************************************************)
\* the call in r invoked the handle_ hook of its action
HandleInvoked(r) == Pos(r.trace, "handle") > 0

\* the call in r returned at once: no hook, no state recorded
NoOp(r) == r.trace = <<>> /\ r.raised = "none"

\* C11 as stated: a delete() that directly follows a delete(), however the
\* first one ended, invokes no hook and changes no state.
C11_SecondDeleteNoOp ==
    \A n \in Names :
        (res[n].op = "delete" /\ res[n].prev \in {"delete", "delete raised"})
            => NoOp(res[n])

\* C11: a delete() that directly follows a delete() that returned normally,
\* and any delete() of a resource that is (DELETE, COMPLETE) or was never
\* created, invokes no hook and changes no state; a delete() that directly
\* follows a delete() that failed is carried out again and invokes
\* handle_delete a second time.
C11_DeleteAfterDelete ==
    /\ [](\A n \in Names :
            (res[n].op = "delete" /\ res[n].prev = "delete") => NoOp(res[n]))
    /\ [](\A n \in Names :
            (res[n].op = "delete" /\ res[n].prev = "delete raised"
                /\ hooks[n].handle) => HandleInvoked(res[n]))
    /\ [][\A n \in Names :
            (res'[n] # res[n] /\ res'[n].op = "delete"
                /\ (<<res[n].action, res[n].status>> = <<DELETE, COMPLETE>>
                       \/ res[n].action = NoState))
            => /\ NoOp(res'[n])
               /\ res'[n].action = res[n].action
               /\ res'[n].status = res[n].status
               /\ res'[n].status_reason = res[n].status_reason]_vars

\* the second of two successive delete() calls of a created resource that
\* declares handle_delete, the first of which succeeded
C11_Witness ==
    \E n \in Names :
        /\ res[n].op = "delete" /\ res[n].prev = "delete"
        /\ hooks[n].handle
        /\ <<res[n].action, res[n].status>> = <<DELETE, COMPLETE>>
        /\ NoOp(res[n])

\* this step is a call of op on n by its caller
CallOf(n, op) == ncalls' = ncalls + 1 /\ res'[n].op = op

\* the call in r was refused with a ResourceFailure before anything was done
Refused(r) == r.raised = "ResourceFailure" /\ r.trace = <<>>

\* the step left action, status and status_reason of n as they were
SameState(n) ==
    /\ res'[n].action = res[n].action
    /\ res'[n].status = res[n].status
    /\ res'[n].status_reason = res[n].status_reason

StateOf(r) == <<r.action, r.status>>

\* the call in r recorded (action, IN_PROGRESS) before anything else
Began(r, action) ==
    /\ r.trace # <<>> /\ r.trace[1] = IN_PROGRESS
    /\ r.action = action

\* C12 as stated: suspend() in any state other than (CREATE, COMPLETE) or
\* (UPDATE, COMPLETE) is refused without a hook call or a state change.
C12_SuspendOnlyAfterCreateOrUpdate ==
    [][\A n \in Driven :
          (CallOf(n, "suspend")
              /\ StateOf(res[n]) \notin {<<CREATE, COMPLETE>>,
                                         <<UPDATE, COMPLETE>>})
          => Refused(res'[n]) /\ SameState(n)]_vars

\* C12: suspend() of a resource whose status is not COMPLETE or whose
\* action is DELETE is refused with a state-invalid ResourceFailure, without
\* invoking handle_suspend and without a state change; in every other state,
\* (SUSPEND, COMPLETE) and (RESUME, COMPLETE) included, it is carried out.
C12_SuspendRefused ==
    [][\A n \in Driven :
          CallOf(n, "suspend") =>
              IF res[n].action = DELETE \/ res[n].status # COMPLETE
              THEN /\ Refused(res'[n]) /\ SameState(n)
                   /\ res'[n].exc = "Error: State " \o StrState(res[n])
                                        \o " invalid for suspend"
              ELSE Began(res'[n], SUSPEND)]_vars

\* a suspend() refused because the resource had been deleted
C12_Witness ==
    \E n \in Driven :
        /\ res[n].op = "suspend" /\ Refused(res[n])
        /\ StateOf(res[n]) = <<DELETE, COMPLETE>>

\* C13: resume() in any state other than (SUSPEND, COMPLETE) is refused with
\* a state-invalid ResourceFailure, without invoking handle_resume and
\* without a state change; from (SUSPEND, COMPLETE) it records
\* (RESUME, IN_PROGRESS), drives handle_resume and check_resume_complete and
\* ends in (RESUME, COMPLETE) or (RESUME, FAILED).
C13_ResumeOnlyAfterSuspend ==
    /\ [][\A n \in Driven :
            CallOf(n, "resume") =>
                IF StateOf(res[n]) # <<SUSPEND, COMPLETE>>
                THEN /\ Refused(res'[n]) /\ SameState(n)
                     /\ res'[n].exc = "Error: State " \o StrState(res[n])
                                          \o " invalid for resume"
                ELSE Began(res'[n], RESUME)]_vars
    /\ [](\A n \in Driven :
            (res[n].op = "resume" /\ ~Refused(res[n])) =>
                /\ res[n].action = RESUME
                /\ res[n].task = "suspended" => res[n].status = IN_PROGRESS
                /\ res[n].task = "done" => res[n].status = COMPLETE
                /\ res[n].task = "failed" =>
                      res[n].status = FAILED /\ res[n].raised = "ResourceFailure"
                /\ res[n].task # "none")
    /\ [][\A n \in Driven :
            (res[n].op = "resume" /\ res'[n].op = "resume"
                /\ res'[n].status = COMPLETE /\ res[n].status # COMPLETE)
            => (hooks[n].handle => Pos(res'[n].trace, "handle") > 0)
               /\ (hooks[n].check => Pos(res'[n].trace, "check_true") > 0)]_vars

\* a resume() of a suspended resource that ended in (RESUME, COMPLETE) after
\* check_resume_complete returned true
C13_Witness ==
    \E n \in Driven :
        /\ res[n].op = "resume" /\ res[n].prev = "suspend"
        /\ StateOf(res[n]) = <<RESUME, COMPLETE>>
        /\ Pos(res[n].trace, "check_true") > 0

(***************************************************************************)
(* Claims about Resource.update                                            *)
(***************************************************************************)
\* the top-level keys and the properties in which the new definition of the
\* driven resource differs from its current one
ChangedKeys == {k \in TmplKeys : snippet[k] # target[k]}
ChangedProperties ==
    {k \in PropKeys : snippet.Properties[k] # target.Properties[k]}

\* every changed key and every changed property may be updated in place
ChangesAllowed ==
    ChangedKeys \subseteq klass.keys /\ ChangedProperties \subseteq klass.props

\* the step invoked handle_update with exactly the changed keys and the
\* changed properties, each with its new value
HandledExactly ==
    /\ updArgs'.called
    /\ updArgs'.tmpl_diff = [k \in ChangedKeys |-> target[k]]
    /\ updArgs'.prop_diff = [k \in ChangedProperties |-> target.Properties[k]]

\* the step raised UpdateReplace before handle_update, leaving n unfailed
ReplaceBeforeHandle(n) ==
    /\ res'[n].raised = "UpdateReplace"
    /\ ~updArgs'.called
    /\ res'[n].status # FAILED

\* C14 as stated: the changed keys alone decide; when all are allowed,
\* handle_update gets exactly the diffs and the resource lands in
\* (UPDATE, COMPLETE), otherwise UpdateReplace is raised before
\* handle_update and the resource is not FAILED.
C14_KeysAloneDecide ==
    [][\A n \in Driven :
          CallOf(n, "update") =>
              IF ChangesAllowed
              THEN HandledExactly /\ StateOf(res'[n]) = <<UPDATE, COMPLETE>>
              ELSE ReplaceBeforeHandle(n)]_vars

\* C14: for an update() that is not refused and whose new properties
\* validate: when a changed key or property is not update-allowed,
\* UpdateReplace is raised, handle_update is not invoked and the resource is
\* left (UPDATE, IN_PROGRESS), not FAILED; when all are allowed,
\* handle_update is invoked with exactly the diffs, and the resource lands
\* in (UPDATE, COMPLETE) with the new definition if it returns, in
\* (UPDATE, FAILED) if it raises, and stays (UPDATE, IN_PROGRESS) if it
\* raises UpdateReplace itself.
C14_UpdateDecision ==
    [][\A n \in Driven :
          CallOf(n, "update") =>
              IF StateOf(res[n]) \in {<<CREATE, IN_PROGRESS>>,
                                     <<UPDATE, IN_PROGRESS>>}
              THEN Refused(res'[n]) /\ SameState(n) /\ ~updArgs'.called
              ELSE IF Pos(res'[n].trace, "validate") > 0
                      /\ Pos(res'[n].trace, "diff") = 0
              THEN /\ StateOf(res'[n]) = <<UPDATE, FAILED>>
                   /\ ~updArgs'.called
              ELSE IF ~ChangesAllowed
              THEN /\ ReplaceBeforeHandle(n)
                   /\ StateOf(res'[n]) = <<UPDATE, IN_PROGRESS>>
                   /\ snippet' = snippet
              ELSE /\ HandledExactly
                   /\ \/ /\ StateOf(res'[n]) = <<UPDATE, COMPLETE>>
                         /\ res'[n].raised = "none"
                         /\ snippet' = target
                      \/ /\ StateOf(res'[n]) = <<UPDATE, FAILED>>
                         /\ res'[n].raised = "ResourceFailure"
                         /\ snippet' = snippet
                      \/ /\ StateOf(res'[n]) = <<UPDATE, IN_PROGRESS>>
                         /\ res'[n].raised = "UpdateReplace"
                         /\ snippet' = snippet]_vars

\* an update in place of a created resource in which a top-level key and a
\* property changed, while another property stayed
C14_Witness ==
    \E n \in Driven :
        /\ res[n].op = "update" /\ res[n].prev = "create"
        /\ StateOf(res[n]) = <<UPDATE, COMPLETE>>
        /\ updArgs.called
        /\ DOMAIN updArgs.tmpl_diff = TmplKeys
        /\ Cardinality(DOMAIN updArgs.prop_diff) = 1

(***************************************************************************)
(* Claims about Stack.create and its rollback                              *)
(***************************************************************************)
\* the step records the first state of n, which is (CREATE, IN_PROGRESS)
BeginsCreate(n) ==
    /\ res[n].action = NoState
    /\ res'[n].action = CREATE
    /\ res'[n].trace[1] = IN_PROGRESS

\* C17: in a Stack.create() every resource is in (CREATE, COMPLETE) before a
\* resource that requires it is set to (CREATE, IN_PROGRESS) or its
\* handle_create is invoked, and when no hook and no validation raises and
\* the timeout does not expire the call ends with the stack and all its
\* resources in (CREATE, COMPLETE).
C17_CreateInOrder ==
    /\ [][\A a, b \in Names :
            (stack.op = "create" /\ a \in tmpl[b]
                /\ (BeginsCreate(b) \/ res'[b].made > res[b].made))
            => StateOf(res[a]) = <<CREATE, COMPLETE>>]_vars
    /\ []((stack.op = "none" /\ stack.log # <<>>
              /\ stack.log[1] = <<CREATE, IN_PROGRESS>>
              /\ grp.failures = <<>> /\ ~stack.timeout)
            => /\ <<stack.action, stack.status>> = <<CREATE, COMPLETE>>
               /\ \A n \in Names : StateOf(res[n]) = <<CREATE, COMPLETE>>)

\* a completed create of a stack in which B requires A, both with hooks,
\* and A was polled more than once
C17_Witness ==
    /\ stack.op = "none"
    /\ <<stack.action, stack.status>> = <<CREATE, COMPLETE>>
    /\ "A" \in tmpl["B"]
    /\ hooks["A"].check /\ hooks["B"].check
    /\ Pos(res["A"].trace, "check") > 0
    /\ \A n \in Names : StateOf(res[n]) = <<CREATE, COMPLETE>>

\* a Stack.create() has returned after the handle_create of a resource raised
CreateFailed ==
    /\ stack.op = "none"
    /\ stack.log # <<>> /\ stack.log[1] = <<CREATE, IN_PROGRESS>>
    /\ grp.failures # <<>>

\* the call recorded (CREATE, FAILED) and nothing after it, and destroyed
\* no resource
FailedWithoutRollback ==
    /\ stack.log = <<<<CREATE, IN_PROGRESS>>, <<CREATE, FAILED>>>>
    /\ <<stack.action, stack.status>> = <<CREATE, FAILED>>
    /\ \A n \in Names : res[n].op # "delete"

\* the call recorded (CREATE, FAILED), then (ROLLBACK, IN_PROGRESS) and the
\* end of the rollback
RolledBack ==
    /\ Len(stack.log) = 4
    /\ stack.log[2] = <<CREATE, FAILED>>
    /\ stack.log[3] = <<ROLLBACK, IN_PROGRESS>>
    /\ stack.log[4] = <<stack.action, stack.status>>
    /\ stack.action = ROLLBACK /\ stack.status \in {COMPLETE, FAILED}
    /\ stack.status = COMPLETE <=> \A n \in Names : res[n].raised = "none"

\* C18 as stated: after a failed create the stack is (CREATE, FAILED) and
\* untouched when rollback is disabled; otherwise it is rolled back, and
\* when the deletions succeed it is (ROLLBACK, COMPLETE) and the
\* resource_id of every resource is None.
C18_RollbackClearsResourceIds ==
    CreateFailed =>
        IF stack.disable_rollback THEN FailedWithoutRollback
        ELSE /\ RolledBack
             /\ stack.status = COMPLETE =>
                   \A n \in Names : res[n].resource_id = None

\* C18: after a failed create the stack is (CREATE, FAILED) and no resource
\* is deleted when rollback is disabled; otherwise (CREATE, FAILED) is
\* recorded and delete(ROLLBACK) follows in the same call, and when the
\* deletions succeed the stack is (ROLLBACK, COMPLETE), the record of the
\* stack and of every resource is removed, and every resource that had been
\* given a state is (DELETE, COMPLETE); a resource_id stays set where
\* handle_delete did not clear it.
C18_RollbackAfterFailedCreate ==
    CreateFailed =>
        IF stack.disable_rollback THEN FailedWithoutRollback
        ELSE /\ RolledBack
             /\ stack.status = COMPLETE =>
                   /\ stack.id = None
                   /\ \A n \in Names :
                         /\ res[n].id = None
                         /\ StateOf(res[n]) \in {<<DELETE, COMPLETE>>,
                                                 <<NoState, NoState>>}
                         /\ res[n].resource_id # None =>
                               /\ StateOf(res[n]) = <<DELETE, COMPLETE>>
                               /\ Pos(res[n].trace, "handle") > 0
             /\ stack.status = FAILED =>
                   /\ stack.id # None
                   /\ \E n \in Names : StateOf(res[n]) = <<DELETE, FAILED>>

\* a rolled back create in which a created resource was deleted and another
\* one never started
C18_Witness ==
    /\ CreateFailed /\ ~stack.disable_rollback
    /\ <<stack.action, stack.status>> = <<ROLLBACK, COMPLETE>>
    /\ \E n \in Names : res[n].made > 0 /\ StateOf(res[n]) = <<DELETE, COMPLETE>>
    /\ \E n \in Names : StateOf(res[n]) = <<NoState, NoState>>

(***************************************************************************)
(* Claims about Stack.update                                               *)
(***************************************************************************)
\* the step runs the beginning of the update task of n, whose definition
\* differs, and NewOps(n) is what it did to n, in order
UpdateTaskActs(n) ==
    stack.op = "update" /\ Len(upd'.ops[n]) > Len(upd.ops[n])

NewOps(n) ==
    SubSeq(upd'.ops[n], Len(upd.ops[n]) + 1, Len(upd'.ops[n]))

\* a Stack.update() has returned, and it was not refused for the state of
\* the stack
UpdateReturned ==
    /\ stack.op = "none"
    /\ stack.log # <<>>
    /\ stack.log[1] = <<UPDATE, IN_PROGRESS>>

\* C15 as stated: a resource whose only changes are update-allowed is
\* updated by handle_update alone, with its resource_id kept, and a stack
\* update made of such changes ends in (UPDATE, COMPLETE).
C15_AllowedChangeNeverReplaces ==
    /\ [][\A n \in Names :
            (UpdateTaskActs(n) /\ change[n] = "allowed") =>
                /\ NewOps(n) = <<[op |-> "update", out |-> "ok",
                                  handle |-> TRUE,
                                  rid |-> res[n].resource_id]>>
                /\ res'[n].resource_id = res[n].resource_id]_vars
    /\ []((UpdateReturned /\ ~stack.timeout
               /\ \A n \in Names : change[n] # "replace") =>
              <<stack.action, stack.status>> = <<UPDATE, COMPLETE>>)

\* C15: in a stack update the task of a resource whose only changes are
\* update-allowed calls Resource.update(); unless the validation of the new
\* properties fails, handle_update is invoked.  When handle_update returns,
\* no other hook of the resource is invoked, the resource is
\* (UPDATE, COMPLETE) and its resource_id is the one it had; when it raises
\* UpdateReplace the old resource is destroyed to be replaced; when it
\* fails, the resource is (UPDATE, FAILED).  An update that is not reverted
\* and does not time out ends in (UPDATE, COMPLETE) exactly when no task
\* failed.
C15_AllowedChangeCallsHandleUpdate ==
    /\ [][\A n \in Names :
            (UpdateTaskActs(n) /\ change[n] = "allowed") =>
                LET ops == NewOps(n)
                    u == ops[1]
                IN  /\ u.op = "update"
                    /\ u.rid = res[n].resource_id
                    /\ u.out = "ok" =>
                          /\ u.handle
                          /\ Len(ops) = 1
                          /\ StateOf(res'[n]) = <<UPDATE, COMPLETE>>
                          /\ res'[n].resource_id = res[n].resource_id
                          /\ res'[n].made = res[n].made
                    /\ u.out = "UpdateReplace" =>
                          /\ u.handle
                          /\ Len(ops) >= 2
                          /\ ops[2].op = "destroy"
                    /\ u.out = "failed" =>
                          /\ Len(ops) = 1
                          /\ StateOf(res'[n]) = <<UPDATE, FAILED>>]_vars
    /\ []((UpdateReturned /\ upd.reverts = 0 /\ ~stack.timeout) =>
              (<<stack.action, stack.status>> = <<UPDATE, COMPLETE>>
                  <=> grp.failures = <<>>))

\* a completed update in which A was updated in place by handle_update and
\* B, whose changes are update-allowed too, was replaced because its
\* handle_update raised UpdateReplace
C15_Witness ==
    /\ UpdateReturned
    /\ <<stack.action, stack.status>> = <<UPDATE, COMPLETE>>
    /\ change["A"] = "allowed" /\ change["B"] = "allowed"
    /\ upd.ops["A"] = <<[op |-> "update", out |-> "ok", handle |-> TRUE,
                         rid |-> res["A"].resource_id]>>
    /\ StateOf(res["A"]) = <<UPDATE, COMPLETE>>
    /\ Len(upd.ops["B"]) = 4
    /\ upd.ops["B"][1].out = "UpdateReplace" /\ upd.ops["B"][1].handle
    /\ StateOf(res["B"]) = <<CREATE, COMPLETE>>

\* C16: in a stack update the task of a resource with a change that is not
\* update-allowed never invokes handle_update and never updates in place:
\* when the validation and the hooks of the resource do not fail,
\* Resource.update() raises UpdateReplace, the old resource is destroyed by
\* one delete, then a new Resource whose resource_id is None is created by
\* one create, whose handle_create gives it a physical id that differs
\* from the old one; and when no task fails and the update does not time
\* out the resource ends in (CREATE, COMPLETE) and the stack in
\* (UPDATE, COMPLETE).
C16_ReplacedByDeleteThenCreate ==
    /\ [][\A n \in Names :
            (UpdateTaskActs(n) /\ change[n] = "replace") =>
                LET ops == NewOps(n)
                    u == ops[1]
                IN  /\ u.op = "update"
                    /\ u.out # "ok"
                    /\ ~u.handle
                    /\ u.out = "failed" => Len(ops) = 1
                    /\ u.out = "UpdateReplace" =>
                          /\ StateOf(res'[n]) # <<UPDATE, FAILED>>
                          /\ Len(ops) >= 2
                          /\ ops[2].op = "destroy"
                          /\ ops[2].handle = hooks[n].handle
                          /\ ops[2].out = "failed" => Len(ops) = 2
                          /\ ops[2].out = "ok" =>
                                /\ Len(ops) = 4
                                /\ ops[3] = [op |-> "new", out |-> "ok",
                                             handle |-> FALSE, rid |-> None]
                                /\ ops[4].op = "create"
                                /\ res'[n].made <= res[n].made + 1
                                /\ (ops[4].out = "ok" /\ hooks[n].handle) =>
                                      /\ ops[4].handle
                                      /\ ops[4].rid # None
                                      /\ ops[4].rid # u.rid
                                      /\ res'[n].made = res[n].made + 1]_vars
    /\ []((UpdateReturned /\ upd.reverts = 0 /\ grp.failures = <<>>
               /\ ~stack.timeout) =>
              /\ <<stack.action, stack.status>> = <<UPDATE, COMPLETE>>
              /\ \A n \in Names :
                    (change[n] = "replace" /\ upd.ops[n] # <<>>) =>
                        /\ Len(upd.ops[n]) = 4
                        /\ StateOf(res[n]) = <<CREATE, COMPLETE>>
                        /\ res[n].resource_id = upd.ops[n][4].rid)

\* a completed update in which B was replaced: its old resource deleted,
\* the new one created and polled, with a second physical id
C16_Witness ==
    /\ UpdateReturned
    /\ <<stack.action, stack.status>> = <<UPDATE, COMPLETE>>
    /\ change["B"] = "replace"
    /\ Len(upd.ops["B"]) = 4
    /\ upd.ops["B"][1].rid = 1
    /\ upd.ops["B"][2].out = "ok"
    /\ upd.ops["B"][4].rid = 2
    /\ res["B"].resource_id = 2
    /\ Pos(res["B"].trace, "check") > 0
    /\ StateOf(res["B"]) = <<CREATE, COMPLETE>>

\* C19: when no call of Stack.create, delete, suspend or update is in
\* flight the status of a stack that was acted on is COMPLETE or FAILED,
\* and the status_reason of a FAILED stack is not empty; while a call is in
\* flight the status is IN_PROGRESS.
C19_StackActionsEndTerminal ==
    /\ stack.op = "none" /\ stack.calls > 0 =>
          /\ stack.status \in {COMPLETE, FAILED}
          /\ stack.status = FAILED => stack.status_reason # ""
    /\ stack.op # "none" => stack.status = IN_PROGRESS

\* an update that has returned with the stack FAILED for the failure of the
\* create of a replacement
C19_Witness ==
    /\ UpdateReturned
    /\ <<stack.action, stack.status>> = <<UPDATE, FAILED>>
    /\ stack.status_reason # ""
    /\ \E n \in Names : StateOf(res[n]) = <<CREATE, FAILED>>

\* a Stack.update() has returned on a stack whose rollback is not disabled
\* without recording (UPDATE, COMPLETE)
UpdateFailedWithRollback ==
    /\ stack.op = "none"
    /\ stack.log # <<>> /\ stack.log[1][1] = UPDATE
    /\ ~stack.disable_rollback
    /\ <<UPDATE, COMPLETE>> \notin {stack.log[i] : i \in DOMAIN stack.log}

\* C20 as stated: a failed update of a stack whose rollback is not disabled
\* has re-invoked update() once with the old template, does not end in
\* (UPDATE, FAILED) but in (ROLLBACK, COMPLETE) or (ROLLBACK, FAILED), and
\* leaves the old template stored.
C20_FailedUpdateAlwaysReverts ==
    UpdateFailedWithRollback =>
        /\ upd.reverts = 1
        /\ upd.target = upd.old
        /\ <<stack.action, stack.status>> \in
              {<<ROLLBACK, COMPLETE>>, <<ROLLBACK, FAILED>>}
        /\ stack.t = upd.old

\* C20: when a task of an update fails on a stack whose rollback is not
\* disabled, update() is re-invoked once from within the call, as a
\* ROLLBACK whose target is the template the stack had; the call records
\* (UPDATE, IN_PROGRESS) twice and ends in (ROLLBACK, COMPLETE), or in
\* (ROLLBACK, FAILED) when a task of the revert fails or the revert times
\* out, without a further revert, and the stored template is the old one.
\* An update refused for the state of the stack records (UPDATE, FAILED)
\* alone, and nothing is reverted; an update that times out ends in
\* (UPDATE, FAILED), is not reverted, and leaves the new template stored.
C20_FailedUpdateReverts ==
    UpdateFailedWithRollback =>
        IF stack.log[1] = <<UPDATE, FAILED>>
        THEN /\ stack.log = <<<<UPDATE, FAILED>>>>
             /\ <<stack.action, stack.status>> = <<UPDATE, FAILED>>
             /\ stack.status_reason = "State invalid for UPDATE"
             /\ upd.reverts = 0
             /\ stack.t = upd.old
             /\ \A n \in Names : upd.ops[n] = <<>>
        ELSE IF stack.timeout /\ upd.action = UPDATE
        THEN /\ stack.log = <<<<UPDATE, IN_PROGRESS>>, <<UPDATE, FAILED>>>>
             /\ <<stack.action, stack.status>> = <<UPDATE, FAILED>>
             /\ stack.status_reason = "Timed out"
             /\ upd.reverts = 0
             /\ stack.t = upd.old + 1
        ELSE /\ upd.reverts = 1
             /\ upd.action = ROLLBACK
             /\ upd.target = upd.old
             /\ Len(stack.log) = 3
             /\ stack.log[2] = <<UPDATE, IN_PROGRESS>>
             /\ stack.log[3] = <<stack.action, stack.status>>
             /\ stack.action = ROLLBACK
             /\ stack.status = (IF grp.failures = <<>> /\ ~stack.timeout
                                THEN COMPLETE ELSE FAILED)
             /\ stack.t = upd.old

\* an update whose revert failed: A had been updated, the task of B failed,
\* and the task that reverts A failed
C20_Witness ==
    /\ UpdateFailedWithRollback
    /\ <<stack.action, stack.status>> = <<ROLLBACK, FAILED>>
    /\ upd.reverts = 1
    /\ Len(upd.ops["A"]) >= 2
    /\ upd.ops["A"][1].out = "ok"
    /\ upd.ops["B"] # <<>>
    /\ stack.t = upd.old

\* a Stack.update() has returned on a stack whose rollback is disabled
\* without recording (UPDATE, COMPLETE)
UpdateFailedWithoutRollback ==
    /\ stack.op = "none"
    /\ stack.log # <<>> /\ stack.log[1][1] = UPDATE
    /\ stack.disable_rollback
    /\ <<UPDATE, COMPLETE>> \notin {stack.log[i] : i \in DOMAIN stack.log}

\* C21 as stated: a failed update of a stack whose rollback is disabled
\* ends in (UPDATE, FAILED) without a revert, and the template of the stack
\* is the new one.
C21_FailedUpdateAlwaysSwaps ==
    UpdateFailedWithoutRollback =>
        /\ <<stack.action, stack.status>> = <<UPDATE, FAILED>>
        /\ upd.reverts = 0
        /\ stack.t = upd.old + 1

\* C21: when a task of an update fails or the update times out on a stack
\* whose rollback is disabled, the call ends in (UPDATE, FAILED) with the
\* first failure or 'Timed out' as its reason, update() is not re-invoked,
\* no resource is touched after the tasks have ended, and the template of
\* the stack is the new one, as after a successful update; an update
\* refused for the state of the stack records (UPDATE, FAILED) and keeps
\* the old template.
C21_FailedUpdateSwapsTemplate ==
    /\ UpdateFailedWithoutRollback =>
          /\ <<stack.action, stack.status>> = <<UPDATE, FAILED>>
          /\ upd.reverts = 0
          /\ upd.action = UPDATE
          /\ IF stack.log[1] = <<UPDATE, FAILED>>
             THEN /\ stack.log = <<<<UPDATE, FAILED>>>>
                  /\ stack.status_reason = "State invalid for UPDATE"
                  /\ stack.t = upd.old
                  /\ \A n \in Names : upd.ops[n] = <<>>
             ELSE /\ stack.log = <<<<UPDATE, IN_PROGRESS>>, <<UPDATE, FAILED>>>>
                  /\ IF stack.timeout
                     THEN stack.status_reason = "Timed out"
                     ELSE /\ grp.failures # <<>>
                          /\ stack.status_reason = grp.failures[1].msg
                  /\ stack.t = upd.old + 1
                  /\ \A n \in Names : Len(upd.ops[n]) <= 4
    /\ (stack.op = "none" /\ stack.log # <<>>
           /\ stack.log[Len(stack.log)] = <<UPDATE, COMPLETE>>) =>
          stack.t = upd.old + 1

\* a failed update without rollback in which A was updated to its new
\* definition and the replacement of B failed in its create
C21_Witness ==
    /\ UpdateFailedWithoutRollback
    /\ stack.log = <<<<UPDATE, IN_PROGRESS>>, <<UPDATE, FAILED>>>>
    /\ stack.t = upd.old + 1
    /\ defn["A"] = stack.t
    /\ StateOf(res["A"]) = <<UPDATE, COMPLETE>>
    /\ StateOf(res["B"]) = <<CREATE, FAILED>>
    /\ defn["B"] = stack.t

(***************************************************************************)
(* Claims about Stack.delete                                               *)
(***************************************************************************)
\* C23: a Stack.delete() destroys every resource once, one after the other,
\* a resource before each resource it requires; and in a Stack.suspend()
\* the suspend of a resource begins only when every resource that requires
\* it is (SUSPEND, COMPLETE).
C23_ReverseOrder ==
    /\ [](stack.seq # <<>> =>
              /\ Len(stack.seq) = Cardinality(Names)
              /\ \A n \in Names : Pos(stack.seq, n) > 0
              /\ \A a, b \in Names :
                    a \in tmpl[b] => Pos(stack.seq, b) < Pos(stack.seq, a))
    /\ [][\A a, b \in Names :
            (stack.op = "suspend" /\ a \in tmpl[b] /\ Started(a)) =>
                /\ runner[b] = "done"
                /\ StateOf(res[b]) = <<SUSPEND, COMPLETE>>]_vars

\* a completed delete of a created stack in which C requires B and B
\* requires A: C was destroyed first and A last
C23_Witness ==
    /\ stack.op = "none"
    /\ <<stack.action, stack.status>> = <<DELETE, COMPLETE>>
    /\ "A" \in tmpl["B"] /\ "B" \in tmpl["C"]
    /\ stack.seq = <<"C", "B", "A">>
    /\ \A n \in Names : StateOf(res[n]) = <<DELETE, COMPLETE>>

\* the call that ended last was a Stack.delete, or a restart_resource
DeleteReturned ==
    /\ stack.op = "none"
    /\ stack.log # <<>>
    /\ stack.log[1] = <<DELETE, IN_PROGRESS>>

Restarted == stack.op = "none" /\ stack.rs.name # ""

\* C22: a Stack.delete in which the deletion of a resource failed leaves the
\* stack (DELETE, FAILED) with its record kept, and each resource that
\* failed (DELETE, FAILED) with the record it had; a Stack.delete invokes
\* handle_delete only on resources that are not (DELETE, COMPLETE) already;
\* and a Stack.delete in which no deletion failed leaves the stack
\* (DELETE, COMPLETE)
C22_FailedDeleteCanBeRepeated ==
    /\ [](DeleteReturned =>
            LET failed == {n \in Names : res[n].raised # "none"}
            IN  /\ failed # {} =>
                      /\ StateOf(stack) = <<DELETE, FAILED>>
                      /\ stack.id # None
                      /\ \A n \in failed :
                            StateOf(res[n]) = <<DELETE, FAILED>>
                /\ failed = {} =>
                      /\ StateOf(stack) = <<DELETE, COMPLETE>>
                      /\ \A n \in Names :
                            StateOf(res[n]) \in {<<DELETE, COMPLETE>>,
                                                 <<NoState, NoState>>})
    /\ [][DeleteReturned' /\ stack'.calls # stack.calls =>
            \A n \in Names :
                /\ res'[n].raised # "none" => res'[n].id = res[n].id
                /\ Pos(res'[n].trace, "handle") > 0 =>
                      /\ StateOf(res[n]) # <<DELETE, COMPLETE>>
                      /\ res[n].action # NoState]_vars

\* a second Stack.delete completed what the first had left: it invoked
\* handle_delete on the resource whose deletion had failed and on none of
\* those deleted before
C22_Witness ==
    /\ DeleteReturned
    /\ StateOf(stack) = <<DELETE, COMPLETE>>
    /\ res["B"].prev = "delete raised"
    /\ res["B"].made = 1
    /\ Pos(res["B"].trace, "handle") > 0
    /\ res["C"].prev = "delete"
    /\ res["C"].trace = <<>>
    /\ StateOf(res["C"]) = <<DELETE, COMPLETE>>

(***************************************************************************)
(* Claims about Stack.restart_resource                                     *)
(***************************************************************************)
RestartOrder == SubOrder(deps, prio, stack.rs.name)

\* the place in the forward order of the first resource restart_resource
\* reached that had a state, 0 when none had
FirstHad ==
    LET seq == RestartOrder
        at == {i \in 1..Len(seq) : seq[i] \in stack.rs.had}
    IN  IF at = {} THEN 0 ELSE CHOOSE i \in at : \A j \in at : i <= j

OthersUntouched ==
    [][Restarted' /\ stack'.calls # stack.calls =>
          \A n \in Names \ Dependents(deps, {stack'.rs.name}) :
              res'[n] = res[n]]_vars

\* C24 as the specification states it: a restart_resource in which no hook
\* fails destroys the named resource and its dependents in reverse order,
\* creates them again in forward order, each ending (CREATE, COMPLETE), and
\* touches no other resource
C24_RestartRecreatesAll ==
    /\ [](Restarted /\ ~stack.rs.failed =>
            /\ stack.seq = Reverse(RestartOrder)
            /\ stack.rs.start = RestartOrder
            /\ \A n \in Dependents(deps, {stack.rs.name}) :
                  StateOf(res[n]) = <<CREATE, COMPLETE>>)
    /\ OthersUntouched

\* C24: what the code does instead: the resources are destroyed in reverse
\* order, and create() is called in forward order up to the first resource
\* that had a state, where its assertion fails and leaves restart_resource:
\* that resource and those after it stay as destroy() left them
C24_RestartStopsAtAssertion ==
    /\ [](Restarted /\ ~stack.rs.failed =>
            LET seq == RestartOrder
                k == FirstHad
            IN  /\ stack.seq = Reverse(seq)
                /\ k = 0 =>
                      /\ stack.raised = "none"
                      /\ stack.rs.start = seq
                      /\ \A n \in Dependents(deps, {stack.rs.name}) :
                            StateOf(res[n]) = <<CREATE, COMPLETE>>
                /\ k > 0 =>
                      /\ stack.raised = "AssertionError"
                      /\ stack.rs.start = SubSeq(seq, 1, k)
                      /\ \A i \in 1..Len(seq) :
                            StateOf(res[seq[i]]) =
                                IF i < k THEN <<CREATE, COMPLETE>>
                                ELSE IF seq[i] \in stack.rs.had
                                THEN <<DELETE, COMPLETE>>
                                ELSE <<NoState, NoState>>)
    /\ OthersUntouched

\* a restart of two created resources none of whose hooks failed
C24_Witness ==
    /\ Restarted
    /\ ~stack.rs.failed
    /\ StateOf(stack) = <<CREATE, COMPLETE>>
    /\ stack.calls = 1
    /\ stack.rs.name = "B"
    /\ stack.seq = <<"C", "B">>
    /\ stack.rs.had = {"B", "C"}
    /\ stack.rs.start = <<"B">>
    /\ stack.raised = "AssertionError"
    /\ res["B"].op = "create"
    /\ res["C"].op = "delete"
    /\ \A n \in {"B", "C"} : StateOf(res[n]) = <<DELETE, COMPLETE>>

\* the resources restart_resource marked without calling create()
Marked(n) ==
    /\ StateOf(res[n]) = <<CREATE, FAILED>>
    /\ res[n].status_reason = "Resource restart aborted"

\* the create() restart_resource called last ended in an exception
RecreateFailed ==
    /\ stack.rs.start # <<>>
    /\ res[stack.rs.start[Len(stack.rs.start)]].raised # "none"

\* C25 as the specification states it: after a failed deletion create() is
\* called on no resource and each is marked (CREATE, FAILED); and after a
\* create() that failed, each later resource is marked (CREATE, FAILED)
\* without a create()
C25_RestartFailsFast ==
    Restarted =>
        LET seq == RestartOrder
            m == Len(stack.rs.start)
        IN  /\ (stack.rs.failed /\ m = 0) =>
                   \A n \in Dependents(deps, {stack.rs.name}) : Marked(n)
            /\ RecreateFailed =>
                   \A i \in (m + 1)..Len(seq) : Marked(seq[i])

\* C25: what the code does: the marking happens after a failed deletion and
\* after a create() that raised ResourceFailure; a create() that raised
\* AssertionError leaves restart_resource, and no later resource is marked
C25_RestartFailsFastUnlessAsserted ==
    Restarted =>
        LET seq == RestartOrder
            m == Len(stack.rs.start)
        IN  /\ (stack.rs.failed /\ m = 0) =>
                   \A n \in Dependents(deps, {stack.rs.name}) : Marked(n)
            /\ (RecreateFailed /\ stack.raised = "none") =>
                   /\ stack.rs.failed
                   /\ \A i \in (m + 1)..Len(seq) : Marked(seq[i])
            /\ stack.raised # "none" =>
                   /\ stack.raised = "AssertionError"
                   /\ RecreateFailed
                   /\ \A i \in (m + 1)..Len(seq) : ~Marked(seq[i])

\* a restart whose deletions failed, so that no create() was called
C25_Witness ==
    /\ Restarted
    /\ stack.rs.failed
    /\ stack.rs.start = <<>>
    /\ Len(stack.seq) >= 2
    /\ \E n \in Names : res[n].raised = "ResourceFailure" /\ Marked(n)

(***************************************************************************)
(* Claims about the events of a resource                                   *)
(***************************************************************************)
\* C26: a state_set whose (action, status) is not the pair the resource has
\* adds one Event, of the new pair, and a state_set of the pair it has adds
\* none; so the events of a resource are the states it went through, none
\* twice in a row, the last being the state it has
C26_EventIffStateChanged ==
    /\ [][\A n \in Driven :
            (res'[n].op = "state_set" /\ ncalls' # ncalls) =>
                IF res'[n].raised # "none"
                THEN /\ StateOf(res'[n]) = StateOf(res[n])
                     /\ res'[n].events = res[n].events
                ELSE IF StateOf(res'[n]) # StateOf(res[n])
                THEN res'[n].events =
                         Append(res[n].events, StateOf(res'[n]))
                ELSE res'[n].events = res[n].events]_vars
    /\ [](\A n \in Driven :
            LET ev == res[n].events
            IN  /\ \A i \in 1..(Len(ev) - 1) : ev[i] # ev[i + 1]
                /\ ev = <<>> <=> res[n].action = NoState
                /\ ev # <<>> => ev[Len(ev)] = StateOf(res[n]))

\* a resource created to (CREATE, COMPLETE), then set to the state it has,
\* which added no Event, then set to another, which added one
C26_Witness ==
    LET r == res["A"]
    IN  /\ r.op = "state_set"
        /\ r.prev = "state_set"
        /\ r.raised = "none"
        /\ ncalls = 3
        /\ r.events = <<<<CREATE, IN_PROGRESS>>, <<CREATE, COMPLETE>>,
                        <<DELETE, COMPLETE>>>>

(***************************************************************************)
(* Claims about the hooks of a resource action                             *)
(***************************************************************************)
\* the call in flight or ended last is an action run by _do_action
ActionCall(r) == r.op \in {"create", "suspend", "resume"} /\ r.trace # <<>>

\* the places of the trace where check_<action>_complete was called
Checks(t) == {i \in 1..Len(t) : t[i] \in {"check", "check_true"}}

Count(t, x) == Cardinality({i \in 1..Len(t) : t[i] = x})

\* C27: in an action of a resource that declares both hooks, handle_<action>
\* is called once; the task is then suspended; check_<action>_complete is
\* called with the value handle_<action> returned, once each time the task
\* is resumed, never before handle_<action> returned and never after it
\* returned true; and COMPLETE is recorded only right after it returned true
C27_HandleOnceThenPoll ==
    /\ [](\A n \in Driven :
            (ActionCall(res[n]) /\ hooks[n].handle /\ hooks[n].check) =>
                LET t == res[n].trace
                    h == Pos(t, "handle")
                IN  /\ Count(t, "handle") <= 1
                    /\ \A i \in Checks(t) : h > 0 /\ h < i
                    /\ Count(t, "check_true") <= 1
                    /\ \A i \in 1..Len(t) :
                          t[i] = "check_true" =>
                              i = Len(t) - 1 /\ t[Len(t)] = COMPLETE
                    /\ Pos(t, COMPLETE) > 0 =>
                          /\ StateOf(res[n]) = <<ActionOf(res[n].op), COMPLETE>>
                          /\ Len(t) > 1 /\ t[Len(t) - 1] = "check_true"
                    /\ Checks(t) # {} =>
                          res[n].data # NoData /\ res[n].arg = res[n].data
                    /\ res[n].task = "suspended" =>
                          t[Len(t)] \in {"handle", "check"})
    /\ [][\A n \in Driven :
            (ActionCall(res'[n]) /\ hooks[n].handle /\ hooks[n].check) =>
                LET t == res[n].trace
                    u == res'[n].trace
                IN  IF ncalls' # ncalls
                    THEN /\ Checks(u) = {}
                         /\ (Pos(u, "handle") > 0 /\ Pos(u, "raised") = 0) =>
                                res'[n].task = "suspended"
                    ELSE /\ Count(u, "handle") = Count(t, "handle")
                         /\ res'[n].data = res[n].data
                         /\ Cardinality(Checks(u)) <= Cardinality(Checks(t)) + 1
                         /\ Checks(u) # Checks(t) =>
                                res[n].task = "suspended"]_vars

\* a suspend: handle_suspend, a check that answered "not yet", then one that
\* answered true, each given what handle_suspend had returned
C27_Witness ==
    \E n \in Driven :
        /\ hooks[n].handle /\ hooks[n].check
        /\ res[n].op = "suspend"
        /\ res[n].trace = <<IN_PROGRESS, "handle", "check", "check_true",
                            COMPLETE>>
        /\ res[n].arg = <<SUSPEND, 1>>

\* C30: in an action of a resource that declares handle_<action> and no
\* check_<action>_complete, no check is called and COMPLETE is recorded
\* when the task is resumed after handle_<action> returned; in an action of
\* a resource that declares no handle_<action>, no hook is called, declared
\* check or not, the task is never suspended, and unless the validation of
\* a create raised the states recorded are IN_PROGRESS then COMPLETE
C30_MissingHooks ==
    /\ [](\A n \in Driven :
            (ActionCall(res[n]) /\ ~(hooks[n].handle /\ hooks[n].check)) =>
                LET t == res[n].trace
                IN  /\ Checks(t) = {}
                    /\ hooks[n].handle =>
                          /\ Count(t, "handle") <= 1
                          /\ res[n].task = "suspended" =>
                                t[Len(t)] = "handle"
                          /\ Pos(t, COMPLETE) > 0 =>
                                /\ t[Len(t)] = COMPLETE
                                /\ t[Len(t) - 1] = "handle"
                    /\ ~hooks[n].handle =>
                          /\ Pos(t, "handle") = 0
                          /\ res[n].task # "suspended"
                          /\ Pos(t, "raised") = 0 =>
                                /\ t \in {<<IN_PROGRESS, COMPLETE>>,
                                          <<IN_PROGRESS, "validate", COMPLETE>>}
                                /\ StateOf(res[n]) =
                                       <<ActionOf(res[n].op), COMPLETE>>)
    /\ [][\A n \in Driven :
            (ActionCall(res[n]) /\ hooks[n].handle /\ ~hooks[n].check
                /\ res[n].task = "suspended" /\ res'[n] # res[n]
                /\ ncalls' = ncalls /\ res'[n].task # "cancelled") =>
                    /\ res'[n].task = "done"
                    /\ res'[n].trace = Append(res[n].trace, COMPLETE)
                    /\ StateOf(res'[n]) = <<ActionOf(res[n].op), COMPLETE>>]_vars

\* a resume of a resource that declares check_resume_complete and no
\* handle_resume, after a suspend that called no hook either
C30_Witness ==
    \E n \in Driven :
        /\ ~hooks[n].handle /\ hooks[n].check
        /\ res[n].op = "resume"
        /\ res[n].prev = "suspend"
        /\ res[n].trace = <<IN_PROGRESS, COMPLETE>>
        /\ StateOf(res[n]) = <<RESUME, COMPLETE>>

\* C28: an action cancelled while its task is suspended, after
\* handle_<action> and before check_<action>_complete returned true, is
\* recorded (<action>, FAILED) with the reason '<action> aborted', calls no
\* hook, raises the cancellation again, and never records COMPLETE
C28_CancelledActionFails ==
    /\ [][\A n \in Driven :
            (res[n].task = "suspended" /\ res'[n].task = "cancelled") =>
                /\ Pos(res[n].trace, "handle") > 0
                /\ Pos(res[n].trace, "check_true") = 0
                /\ StateOf(res[n]) = <<res[n].cur, IN_PROGRESS>>
                /\ StateOf(res'[n]) = <<res[n].cur, FAILED>>
                /\ res'[n].status_reason = res[n].cur \o " aborted"
                /\ res'[n].raised = "GeneratorExit"
                /\ res'[n].trace = Append(res[n].trace, FAILED)]_vars
    /\ [](\A n \in Driven :
            res[n].task = "cancelled" =>
                /\ StateOf(res[n]) = <<ActionOf(res[n].op), FAILED>>
                /\ res[n].raised = "GeneratorExit"
                /\ Pos(res[n].trace, COMPLETE) = 0)
    /\ [][\A n \in Driven :
            res[n].task = "cancelled" =>
                \/ res'[n] = res[n]
                \/ ncalls' # ncalls]_vars

\* a suspend cancelled after its check had answered "not yet"
C28_Witness ==
    \E n \in Driven :
        /\ res[n].task = "cancelled"
        /\ res[n].op = "suspend"
        /\ res[n].polls > 0
        /\ StateOf(res[n]) = <<SUSPEND, FAILED>>
        /\ res[n].status_reason = "SUSPEND aborted"

(***************************************************************************)
(* Claims about the timeout of a stack action                              *)
(***************************************************************************)
\* this step is the one in which the timeout of the call in flight expires
TimesOut == stack'.timeout /\ ~stack.timeout

\* the tasks that were running are terminated, and no other resource is
\* touched
OnlyRunningTasksCancelled ==
    \A n \in Names :
        IF runner[n] = "running"
        THEN /\ runner'[n] = "cancelled"
             /\ res'[n].task = "cancelled"
             /\ StateOf(res'[n]) = <<res[n].cur, FAILED>>
             /\ res'[n].status_reason = res[n].cur \o " aborted"
        ELSE res'[n] = res[n]

\* C29 as the specification states it: when the timeout expires during a
\* Stack.create or a Stack.update the tasks in flight are terminated, the
\* stack is left FAILED, and the resources whose action had completed are
\* left as they are
C29_TimeoutLeavesCompleted ==
    [][(TimesOut /\ stack.op \in {"create", "update"}) =>
          /\ stack'.status = FAILED
          /\ OnlyRunningTasksCancelled]_vars

\* C29: when the timeout expires during a Stack.update, or during a
\* Stack.create of a stack whose rollback is disabled, the tasks in flight
\* are terminated, the stack is left (action, FAILED), the action being
\* ROLLBACK when the update is a revert, with a reason that says so, and
\* no other resource is touched; after a Stack.create of a
\* stack whose rollback is not disabled, delete(ROLLBACK) follows in the
\* same call: every resource is destroyed, handle_delete being invoked on
\* those whose create had completed, and the stack ends in
\* (ROLLBACK, COMPLETE) or (ROLLBACK, FAILED)
C29_TimeoutThenRollback ==
    [][(TimesOut /\ stack.op \in {"create", "update"}) =>
          IF stack.op = "create" /\ ~stack.disable_rollback
          THEN /\ Len(stack'.log) = 4
               /\ stack'.log[2] = <<CREATE, FAILED>>
               /\ stack'.log[3] = <<ROLLBACK, IN_PROGRESS>>
               /\ stack'.log[4] = StateOf(stack')
               /\ stack'.action = ROLLBACK
               /\ stack'.status \in {COMPLETE, FAILED}
               /\ \A n \in Names :
                     /\ res'[n].op = "delete"
                     /\ runner[n] = "running" =>
                           \E i \in 1..Len(res'[n].events) :
                               res'[n].events[i] = <<CREATE, FAILED>>
                     /\ (runner[n] = "done" /\ hooks[n].handle) =>
                           Pos(res'[n].trace, "handle") > 0
          ELSE /\ StateOf(stack') =
                      <<IF stack.op = "update" THEN upd.action ELSE CREATE,
                        FAILED>>
               /\ stack'.status_reason =
                      (IF stack.op = "create" THEN "Create timed out"
                       ELSE "Timed out")
               /\ stack'.op = "none"
               /\ OnlyRunningTasksCancelled]_vars

\* an update that timed out while the replacement of B was being created:
\* A, updated in place before, is left (UPDATE, COMPLETE)
C29_Witness ==
    /\ stack.timeout
    /\ stack.op = "none"
    /\ StateOf(stack) = <<UPDATE, FAILED>>
    /\ stack.status_reason = "Timed out"
    /\ StateOf(res["A"]) = <<UPDATE, COMPLETE>>
    /\ res["B"].task = "cancelled"
    /\ StateOf(res["B"]) = <<CREATE, FAILED>>
    /\ res["B"].status_reason = "CREATE aborted"

(***************************************************************************)
(* Claims about absent hooks, delete and destroy                           *)
(***************************************************************************)
\* C31 as stated: suspend() on a resource without handle_suspend, and
\* resume() on a resource without handle_resume, is rejected, and the call
\* does not record (SUSPEND, COMPLETE) or (RESUME, COMPLETE).
C31_MissingHookRejected ==
    [][\A n \in Driven :
          ((CallOf(n, "suspend") \/ CallOf(n, "resume")) /\ ~hooks[n].handle)
          => /\ res'[n].raised # "none"
             /\ StateOf(res'[n]) \notin {<<SUSPEND, COMPLETE>>,
                                         <<RESUME, COMPLETE>>}]_vars

\* C31: suspend() or resume() accepted on a resource that declares no
\* handle hook for it is a no-op: the call records IN_PROGRESS and then
\* COMPLETE for its action at once, raises nothing and invokes no hook.
C31_MissingHookIsNoOp ==
    [][\A n \in Driven :
          /\ (CallOf(n, "suspend") /\ ~hooks[n].handle /\ SuspendAllowed(res[n]))
             => /\ StateOf(res'[n]) = <<SUSPEND, COMPLETE>>
                /\ res'[n].raised = "none" /\ res'[n].task = "done"
                /\ res'[n].trace = <<IN_PROGRESS, COMPLETE>>
          /\ (CallOf(n, "resume") /\ ~hooks[n].handle /\ ResumeAllowed(res[n]))
             => /\ StateOf(res'[n]) = <<RESUME, COMPLETE>>
                /\ res'[n].raised = "none" /\ res'[n].task = "done"
                /\ res'[n].trace = <<IN_PROGRESS, COMPLETE>>]_vars

\* a resource without hooks that was suspended and then resumed, each call
\* completing without a hook
C31_Witness ==
    \E n \in Driven :
        /\ ~hooks[n].handle
        /\ res[n].op = "resume" /\ res[n].prev = "suspend"
        /\ StateOf(res[n]) = <<RESUME, COMPLETE>>
        /\ res[n].trace = <<IN_PROGRESS, COMPLETE>>

\* the delete() in r went past its two early returns
Deleting(r) == r.op = "delete" /\ r.trace # <<>>

\* C32 as stated: a delete() that recorded (DELETE, COMPLETE) on a resource
\* declaring both delete hooks polled check_delete_complete until it
\* returned true.
C32_DeletePollsCheck ==
    \A n \in Driven :
        (Deleting(res[n]) /\ hooks[n].handle /\ hooks[n].check
            /\ StateOf(res[n]) = <<DELETE, COMPLETE>>)
        => Pos(res[n].trace, "check_true") > 0

\* C32: delete() on a created resource is one uninterrupted call: it records
\* (DELETE, IN_PROGRESS), invokes handle_delete if declared, never invokes
\* check_delete_complete and never suspends, and ends in (DELETE, COMPLETE)
\* when handle_delete returned and in (DELETE, FAILED) with a ResourceFailure
\* when it raised.
C32_DeleteNeverPolls ==
    [][\A n \in Driven :
          (CallOf(n, "delete") /\ DeleteNeeded(res[n]))
          => /\ Began(res'[n], DELETE)
             /\ res'[n].status \in {COMPLETE, FAILED}
             /\ res'[n].status = COMPLETE <=> res'[n].raised = "none"
             /\ res'[n].status = FAILED <=> res'[n].raised = "ResourceFailure"
             /\ res'[n].task # "suspended"
             /\ Pos(res'[n].trace, "check") = 0
             /\ Pos(res'[n].trace, "check_true") = 0
             /\ res'[n].arg = NoData
             /\ hooks[n].handle <=> Pos(res'[n].trace, "handle") > 0]_vars

\* a created resource declaring both hooks whose delete() recorded
\* (DELETE, COMPLETE) right after handle_delete returned
C32_Witness ==
    \E n \in Driven :
        /\ hooks[n].handle /\ hooks[n].check
        /\ res[n].op = "delete" /\ res[n].prev = "create"
        /\ StateOf(res[n]) = <<DELETE, COMPLETE>>
        /\ res[n].trace = <<IN_PROGRESS, "handle", COMPLETE>>

\* no record was ever made for r: it never went to (CREATE, IN_PROGRESS)
NeverStored(r) == Pos(r.events, <<CREATE, IN_PROGRESS>>) = 0

\* C33 as stated: a resource without a record is in (DELETE, COMPLETE) or
\* never had one.
C33_MissingRecordMeansDeleted ==
    \A n \in Names :
        res[n].id = None =>
            StateOf(res[n]) = <<DELETE, COMPLETE>> \/ NeverStored(res[n])

\* C33: within a Stack.delete, destroy() removes the record of a resource
\* exactly when its delete() returned: a resource whose delete() raised is
\* (DELETE, FAILED) and keeps the record and the id it had, and a resource
\* that lost its record in the call is (DELETE, COMPLETE).  That a resource
\* without a record is (DELETE, COMPLETE) holds when destroy() returns, not
\* at every later moment.
C33_RecordRemovedAfterDelete ==
    [][(DeleteReturned' /\ stack'.calls # stack.calls) =>
          \A n \in Names :
              /\ res'[n].raised = "none" =>
                    /\ res'[n].id = None
                    /\ StateOf(res'[n]) \in {<<DELETE, COMPLETE>>,
                                             <<NoState, NoState>>}
              /\ res'[n].raised # "none" =>
                    /\ res'[n].id = res[n].id
                    /\ StateOf(res'[n]) = <<DELETE, FAILED>>
              /\ (res[n].id # None /\ res'[n].id = None) =>
                    /\ StateOf(res'[n]) = <<DELETE, COMPLETE>>
                    /\ Pos(res'[n].trace, COMPLETE) > 0]_vars

\* a Stack.delete in which the delete() of B failed and that of A did not:
\* B kept its record and A lost it
C33_Witness ==
    /\ DeleteReturned
    /\ StateOf(res["B"]) = <<DELETE, FAILED>> /\ res["B"].id # None
    /\ res["B"].raised = "ResourceFailure"
    /\ StateOf(res["A"]) = <<DELETE, COMPLETE>> /\ res["A"].id = None
    /\ res["A"].trace = <<IN_PROGRESS, "handle", COMPLETE>>

(***************************************************************************)
(* Claims about the references of a definition                             *)
(***************************************************************************)
\* the edges of the graph under construction that start at n
EdgesFrom(n) == {e \in built.graph.edges : e[1] = n}

\* C34 as stated: every DependsOn, Ref and Fn::GetAtt of a resource whose
\* add_dependencies() has run, naming a resource of the stack, is an edge of
\* the graph.
C34_EveryReferenceIsAnEdge ==
    \A n \in built.added :
        \A x \in references[n] :
            x.value \in Names => <<n, x.value>> \in built.graph.edges

\* C34: add_dependencies() of a resource R adds the edge 'R requires T' for
\* every DependsOn naming a resource T of the stack, and for every Ref and
\* Fn::GetAtt naming a resource T of the stack whose class has
\* strict_dependency, and no other edge; when a reference of R names no
\* resource of the stack it raises InvalidTemplateReference for that name
\* and the construction of the stack ends there, before any method of a
\* resource is called.
C34_ReferencesMakeEdges ==
    /\ \A n \in built.added :
          /\ InvalidReferences(references[n]) = {}
          /\ EdgesFrom(n) =
                {<<n, x.value>> :
                    x \in {y \in references[n] :
                              y.key = "DependsOn" \/ strict[y.value]}}
    /\ \A n \in Names : EdgesFrom(n) # {} => n \in built.added
    /\ built.raised # "" =>
          /\ built.raised = "InvalidTemplateReference"
          /\ built.resource \notin Names
          /\ \E n \in Names \ built.added :
                \E x \in references[n] : x.value = built.resource
    /\ \A n \in Names : res[n] = NewResource

\* a stack whose graph was built: B refers to A, whose class has no
\* strict_dependency, and has no edge; C names A in DependsOn and has one
C34_Witness ==
    /\ built.added = Names /\ built.raised = ""
    /\ ~strict["A"]
    /\ references["B"] = {[key |-> "Ref", value |-> "A"]}
    /\ references["C"] = {[key |-> "DependsOn", value |-> "A"]}
    /\ built.graph.edges = {<<"C", "A">>}

(***************************************************************************)
(* Claims about failures within Stack.delete                               *)
(***************************************************************************)
\* the delete() of n in the Stack.delete that returned last failed
DeleteFailed(n) == res[n].op = "delete" /\ res[n].raised # "none"

\* C35 as stated: in a Stack.delete, no resource is deleted after the
\* deletion of a resource that requires it has failed.
C35_NoDeleteAfterFailure ==
    DeleteReturned =>
        \A a, b \in Names :
            (a \in tmpl[b] /\ DeleteFailed(b)) => res[a].trace = <<>>

\* C35: a Stack.delete goes on after a failure: destroy() is called on every
\* resource, one after the other, and every resource that was not deleted
\* already is deleted or fails to delete in the call, also when the deletion
\* of a resource that requires it has failed before; the stack ends
\* (DELETE, FAILED) when any deletion failed.
C35_DeleteGoesOnAfterFailure ==
    [][(DeleteReturned' /\ stack'.calls # stack.calls) =>
          /\ Len(stack'.seq) = Cardinality(Names)
          /\ \A n \in Names :
                /\ res'[n].op = "delete"
                /\ DeleteNeeded(res[n]) =>
                      /\ Began(res'[n], DELETE)
                      /\ res'[n].status \in {COMPLETE, FAILED}
          /\ (\E n \in Names : res'[n].raised # "none") <=>
                StateOf(stack') = <<DELETE, FAILED>>]_vars

\* B requires A and the deletion of B failed: A was deleted all the same,
\* after B
C35_Witness ==
    /\ DeleteReturned
    /\ "A" \in tmpl["B"]
    /\ DeleteFailed("B") /\ StateOf(res["B"]) = <<DELETE, FAILED>>
    /\ Pos(stack.seq, "B") < Pos(stack.seq, "A")
    /\ res["A"].trace = <<IN_PROGRESS, "handle", COMPLETE>>
    /\ StateOf(res["A"]) = <<DELETE, COMPLETE>>
    /\ StateOf(stack) = <<DELETE, FAILED>>

(***************************************************************************)
(* Claims about validation and refused updates                             *)
(***************************************************************************)
\* the validation of the call in r raised
ValidationFailed(r) ==
    /\ Pos(r.trace, "validate") > 0
    /\ Len(r.trace) > Pos(r.trace, "validate")
    /\ r.trace[Pos(r.trace, "validate") + 1] = "raised"

\* C36: a create() that is accepted records (CREATE, IN_PROGRESS) and then
\* validates the properties before anything else; when the validation
\* raises, the call ends there with a ResourceFailure and (CREATE, FAILED),
\* no physical resource is made, and neither handle_create nor
\* check_create_complete is invoked by the call, then or later.
C36_ValidationBeforeHooks ==
    /\ [][\A n \in Driven :
            (CallOf(n, "create") /\ CreateAllowed(res[n])) =>
                /\ Len(res'[n].trace) >= 2
                /\ res'[n].trace[1] = IN_PROGRESS
                /\ res'[n].trace[2] = "validate"
                /\ ValidationFailed(res'[n]) =>
                      /\ res'[n].trace =
                            <<IN_PROGRESS, "validate", "raised", FAILED>>
                      /\ res'[n].raised = "ResourceFailure"
                      /\ res'[n].task = "failed"
                      /\ StateOf(res'[n]) = <<CREATE, FAILED>>
                      /\ res'[n].made = res[n].made
                      /\ res'[n].resource_id = res[n].resource_id]_vars
    /\ [](\A n \in Driven :
            (res[n].op = "create" /\ ValidationFailed(res[n])) =>
                /\ Pos(res[n].trace, "handle") = 0
                /\ Pos(res[n].trace, "check") = 0
                /\ Pos(res[n].trace, "check_true") = 0
                /\ res[n].task = "failed")

\* a create() of a resource declaring both hooks whose validation raised
C36_Witness ==
    \E n \in Driven :
        /\ hooks[n].handle /\ hooks[n].check
        /\ res[n].op = "create" /\ ValidationFailed(res[n])
        /\ StateOf(res[n]) = <<CREATE, FAILED>>
        /\ res[n].resource_id = None

\* C37: update() of a resource that is (CREATE, IN_PROGRESS) or
\* (UPDATE, IN_PROGRESS) raises ResourceFailure, 'Resource update already
\* requested', invokes neither the validation nor handle_update, leaves
\* action, status and status_reason as they were and adds no event.
C37_UpdateInProgressRefused ==
    [][\A n \in Driven :
          (CallOf(n, "update")
              /\ StateOf(res[n]) \in {<<CREATE, IN_PROGRESS>>,
                                      <<UPDATE, IN_PROGRESS>>})
          => /\ Refused(res'[n])
             /\ res'[n].exc = "Exception: Resource update already requested"
             /\ SameState(n)
             /\ res'[n].events = res[n].events
             /\ res'[n].id = res[n].id
             /\ res'[n].resource_id = res[n].resource_id]_vars

\* an update() refused on a resource that was (CREATE, IN_PROGRESS)
C37_Witness ==
    \E n \in Driven :
        /\ res[n].op = "update" /\ Refused(res[n])
        /\ res[n].exc = "Exception: Resource update already requested"
        /\ StateOf(res[n]) = <<CREATE, IN_PROGRESS>>

\* C38: an update() that raises UpdateReplace leaves the resource
\* (UPDATE, IN_PROGRESS), having recorded neither FAILED nor COMPLETE; the
\* resource stays (UPDATE, IN_PROGRESS) through every call but delete(), and
\* an update() made while it is so is refused as already requested.
C38_ReplaceLeavesInProgress ==
    /\ [][\A n \in Driven :
            (CallOf(n, "update") /\ res'[n].raised = "UpdateReplace") =>
                /\ StateOf(res'[n]) = <<UPDATE, IN_PROGRESS>>
                /\ Began(res'[n], UPDATE)
                /\ Pos(res'[n].trace, FAILED) = 0
                /\ Pos(res'[n].trace, COMPLETE) = 0]_vars
    /\ [][\A n \in Driven :
            (StateOf(res[n]) = <<UPDATE, IN_PROGRESS>>
                /\ ~CallOf(n, "delete"))
            => StateOf(res'[n]) = <<UPDATE, IN_PROGRESS>>]_vars
    /\ [][\A n \in Driven :
            (CallOf(n, "update") /\ res[n].op = "update"
                /\ res[n].raised = "UpdateReplace")
            => /\ Refused(res'[n])
               /\ res'[n].exc = "Exception: Resource update already requested"
               /\ SameState(n)]_vars

\* an update() refused right after an update() that raised UpdateReplace
C38_Witness ==
    \E n \in Driven :
        /\ res[n].op = "update" /\ res[n].prev = "update raised"
        /\ Refused(res[n])
        /\ StateOf(res[n]) = <<UPDATE, IN_PROGRESS>>

(***************************************************************************)
(* Claims about the state of a stack and of its resources                  *)
(***************************************************************************)
\* this step ends a Stack.create or a Stack.suspend, post_func included
StackTaskEnds ==
    stack.op \in {"create", "suspend"} /\ stack'.op = "none"

\* C39: when a Stack.create or a Stack.suspend ends, it has recorded
\* COMPLETE for its action only if every resource is in that action's
\* COMPLETE state; and if the action of a resource failed, was cancelled or
\* was never started, it has recorded FAILED for its action and not
\* COMPLETE.
C39_StackAgreesWithResources ==
    [][StackTaskEnds =>
          LET action == stack.action
          IN  /\ Pos(stack'.log, <<action, COMPLETE>>) > 0 =>
                    /\ \A n \in Names :
                          StateOf(res'[n]) = <<action, COMPLETE>>
                    /\ StateOf(stack') = <<action, COMPLETE>>
              /\ (\E n \in Names : runner'[n] # "done") =>
                    /\ Pos(stack'.log, <<action, FAILED>>) > 0
                    /\ Pos(stack'.log, <<action, COMPLETE>>) = 0
              /\ Pos(stack'.log, <<action, COMPLETE>>) > 0
                    \/ Pos(stack'.log, <<action, FAILED>>) > 0]_vars

\* a Stack.create that ended (CREATE, FAILED): the create of C had completed,
\* that of A failed and that of B, which requires A, was never started
C39_Witness ==
    /\ stack.op = "none" /\ StateOf(stack) = <<CREATE, FAILED>>
    /\ ~stack.timeout
    /\ StateOf(res["C"]) = <<CREATE, COMPLETE>>
    /\ StateOf(res["A"]) = <<CREATE, FAILED>>
    /\ StateOf(res["B"]) = <<NoState, NoState>>
    /\ runner["B"] = "pending"

(***************************************************************************)
(* Claims about the calls a stack refuses                                  *)
(***************************************************************************)
\* this step is a call of Stack.<op>, begun and, if refused, ended
StackCallOf(op) == stack'.calls = stack.calls + 1 /\ stack'.called = op

\* the step changed no resource, and neither the template nor the graph of
\* the stack, and left the stack stored and idle
StackUntouched ==
    /\ res' = res
    /\ stack'.t = stack.t /\ defn' = defn
    /\ tmpl' = tmpl /\ deps' = deps
    /\ stack'.id = stack.id
    /\ stack'.op = "none"
    /\ runner' = runner /\ grp' = grp

\* C40: a Stack.update() of a stack whose status is not COMPLETE calls no
\* method of a resource, leaves the template and the dependency graph as
\* they were and records only (UPDATE, FAILED, 'State invalid for UPDATE');
\* a Stack.update() or Stack.delete() given an action it does not admit
\* changes nothing either and records only (UPDATE, FAILED), respectively
\* (DELETE, FAILED), with the reason 'Invalid action <action>'.
C40_RefusedCallsTouchNothing ==
    /\ [][(StackCallOf("update") /\ stack'.arg = ""
              /\ stack.status # COMPLETE)
          => /\ StackUntouched
             /\ stack'.log = <<<<UPDATE, FAILED>>>>
             /\ StateOf(stack') = <<UPDATE, FAILED>>
             /\ stack'.status_reason = "State invalid for UPDATE"]_vars
    /\ [][(StackCallOf("update") /\ stack'.arg # "")
          => /\ StackUntouched
             /\ stack'.log = <<<<UPDATE, FAILED>>>>
             /\ StateOf(stack') = <<UPDATE, FAILED>>
             /\ stack'.status_reason = "Invalid action " \o stack'.arg]_vars
    /\ [][(StackCallOf("delete") /\ stack'.arg # "")
          => /\ StackUntouched
             /\ stack'.log = <<<<DELETE, FAILED>>>>
             /\ StateOf(stack') = <<DELETE, FAILED>>
             /\ stack'.status_reason = "Invalid action " \o stack'.arg]_vars

\* a Stack.update() refused on a stack whose create had failed
C40_Witness ==
    /\ stack.called = "update" /\ stack.arg = "" /\ stack.op = "none"
    /\ stack.status_reason = "State invalid for UPDATE"
    /\ StateOf(stack) = <<UPDATE, FAILED>>
    /\ \E n \in Names : StateOf(res[n]) = <<CREATE, FAILED>>
    /\ \A n \in Names : res[n].op \in {"none", "create"}

=============================================================================
